---- MODULE Spec2Model ----
(***************************************************************************)
(* Model of GeminiService (services/geminiService): the credential list    *)
(* and its index, startChat, initializeSession, rotateKey and the attempt  *)
(* loop of sendMessageStream with its failure classification.              *)
(*                                                                         *)
(* sendMessageStream is an async generator: it runs synchronously between  *)
(* two awaits.  pc names the await the turn is suspended at ("retrieve",   *)
(* "draft", "open", "stream"), or a position inside a synchronous stretch  *)
(* ("loop") at which no other flow can run.           startChat is called  *)
(* by the application whenever the configuration object changes, so it may *)
(* run between turns and while a turn is suspended at an await.            *)
(*                                                                         *)
(* Spec is the attempt loop with its recoveries; SpecFair adds that every  *)
(* awaited call settles; SpecRotate calls rotateKey directly; SpecStream   *)
(* is the result stream of an attempt with the <thought> parser;           *)
(* SpecRetrieve is getRelevantContext.                                     *)
(***************************************************************************)
EXTENDS Integers, Sequences, FiniteSets, TLC

VARIABLES
    currentConfig,    \* this.currentConfig (NoConfig = null)
    apiKeys,          \* this.apiKeys
    currentKeyIndex,  \* this.currentKeyIndex (0-based, as in the source)
    chatSession,      \* this.chatSession (NoSession = null)
    envKey,           \* process.env.API_KEY ("" when unset)
    pc,               \* position of the turn in flight
    attempt,          \* local attempt of sendMessageStream
    maxAttempts,      \* local maxAttempts of sendMessageStream
    isAutoRefine,     \* local isAutoRefine of sendMessageStream
    err,              \* the error caught by the catch block of this turn
    thrown,           \* the error the turn ended with (NoError = none)
    chunks,           \* stream fragments consumed in the current attempt
    usage,            \* TRUE once the final usage record was emitted
    genAttempts,      \* history: loop iterations (sessions initialised) this turn
    genRequests,      \* history: generation requests sent this turn
    embedRequests,    \* history: query-embedding requests sent this turn
    recov,            \* history: quota recoveries of this turn, in order
    reconfigs,        \* history: startChat calls while this turn was suspended
    loopKeyCount,     \* history: apiKeys.length when the attempt loop was entered
    turnConfig,       \* history: model and key list in force when the turn started
    rotLog,           \* history: results of rotateKey since the last startChat
    resultStream,     \* fragments the stream of the attempt has still to deliver
    received,         \* history: fragments consumed in the attempt, in order
    buffer,           \* local buffer of the stream parser
    inThoughtBlock,   \* local inThoughtBlock of the stream parser
    fullOutputText,   \* local fullOutputText of the attempt
    fullThoughtText,  \* local fullThoughtText of the attempt
    inputTokens,      \* local inputTokens of the turn
    update,           \* the last item the generator yielded in this turn
    updates,          \* history: number of items yielded in this turn
    consumed,         \* history: number of chunks read in this turn
    deliveredText,    \* history: the text of the items yielded in this turn, concatenated
    ragPc,            \* position of the getRelevantContext call in flight
    knowledgeFiles,   \* argument files of that call
    queryVector,      \* local queryVector of that call ("none" before embedText resolved)
    embedKey,         \* history: the key the client of the last embedText call was built with
    context,          \* what the call returned: the chunks selected and the fragment
    chunked,          \* the last call of chunkText: its arguments and its result
    vecPc,            \* position of the vectorizeFile call in flight
    vecArgs,          \* arguments fileObj.content and apiKey of that call
    vecIndex,         \* 0-based position of its for-of loop in chunks
    vectorChunks,     \* local vectorChunks of that call
    vecSent,          \* history: positions of the chunks handed to embedText, in order
    vecPending,       \* history: embedText calls of that call not yet resolved
    vecOk,            \* history: positions of the chunks whose embedText gave a vector
    vecFile,          \* the KnowledgeFile the call returned
    args,             \* arguments text, files, previousHistory, storySummary of the turn
    sdkHistory,       \* local sdkHistory of sendMessageStream
    contextParts,     \* local contextParts of sendMessageStream
    finalPrompt,      \* local finalPrompt of sendMessageStream
    messageInput,     \* local messageInput of sendMessageStream
    callConfig,       \* history: this.currentConfig when the turn was started
    endConfig,        \* history: this.currentConfig when the composition ended
    runs,             \* history: compositions completed
    firstRun,         \* history: inputs and results of the first composition
    messages,         \* App state messages: the conversation on the screen
    isLoading,        \* App state isLoading
    appPc,            \* position of handleSendMessage: "idle" or "streaming" (in for await)
    appTurn,          \* ids and text of the messages of the handleSendMessage call in flight
    fullText,         \* local fullText of that call
    currentSessionId, \* App state currentSessionId (0 for null)
    sessions,         \* App state sessions: the messages of each session in the list
    clock,            \* Date.now(), as far as ids are made of it
    outcome,          \* history: how the last handleSendMessage call ended
    failure,          \* history: the message of the error that call caught
    turnCount,        \* App ref turnCountRef.current
    openStreams,      \* history: calls of sendMessageStream whose stream has not ended
    seenMessages,     \* the value of messages the memory effect last ran for
    isSummarizing,    \* App state isSummarizing
    extracting,       \* history: calls of extractMemories not yet resolved
    extractLog,       \* history: turnCountRef.current at every call of extractMemories
    appMemories,      \* App state appConfig.memories
    cosArgs,          \* arguments a and b of the last cosineSimilarity call
    cosResult,        \* what that call returned
    stopSequences,    \* config.generationConfig.stopSequences
    newStopSequence,  \* SettingsPanel state newStopSequence: the input box
    stopOp,           \* history: the last stop-sequence handler and what it was given
    upFiles,          \* e.target.files of the handleKnowledgeUpload call: the batch
    upPc,             \* position of that call: "idle", "extract", "vectorize" or "done"
    upIndex,          \* local i of its loop (1-based; 0 outside the loop)
    newFiles,         \* local newFiles of that call
    isProcessing,     \* SettingsPanel state isProcessing
    panelFiles,       \* config.knowledgeFiles as the panel holds it: ids of the files
    upOutcomes,       \* history: what happened to each file of the batch
    uploads,          \* history: batches handed to handleKnowledgeUpload
    ttsCache,         \* this.ttsCache: cache key -> the ArrayBuffer stored (its position in audioHeap)
    audioHeap,        \* the ArrayBuffers generateSpeech made: their bytes, detached or not
    speechPending,    \* generateSpeech calls that wait for the backend
    speechLog         \* history: what every generateSpeech call returned, in order

\* the contents of the stream and what the parser makes of them
streamVars == <<resultStream, received, buffer, inThoughtBlock, fullOutputText,
                fullThoughtText, inputTokens, update, updates, consumed, deliveredText>>

\* the retrieval call in flight
ragVars == <<ragPc, knowledgeFiles, queryVector, embedKey, context>>

\* chunking and vectorising a file
ingestVars == <<chunked, vecPc, vecArgs, vecIndex, vectorChunks, vecSent, vecPending,
                vecOk, vecFile>>

\* the composition of the prompt
composeVars == <<args, sdkHistory, contextParts, finalPrompt, messageInput, callConfig,
                 endConfig, runs, firstRun>>

\* the application around the service
appVars == <<messages, isLoading, appPc, appTurn, fullText, currentSessionId, sessions,
             clock, outcome, failure, turnCount, openStreams>>

\* the memory extraction effect of the application
memVars == <<seenMessages, isSummarizing, extracting, extractLog, appMemories>>

\* the vector arithmetic of the retrieval
mathVars == <<cosArgs, cosResult>>

\* the stop sequences of the settings panel
stopVars == <<stopSequences, newStopSequence, stopOp>>

\* the knowledge upload of the settings panel
uploadVars == <<upFiles, upPc, upIndex, newFiles, isProcessing, panelFiles, upOutcomes,
                uploads>>

\* text to speech
speechVars == <<ttsCache, audioHeap, speechPending, speechLog>>

\* state of the utilities and panels beside the conversation
utilVars == <<mathVars, stopVars, uploadVars, speechVars>>

\* state the attempt loop does not look into
auxVars == <<streamVars, ragVars, ingestVars, composeVars, appVars, memVars, utilVars>>

vars == <<currentConfig, apiKeys, currentKeyIndex, chatSession, envKey, pc,
          attempt, maxAttempts, isAutoRefine, err, thrown, chunks, usage,
          genAttempts, genRequests, embedRequests, recov, reconfigs,
          loopKeyCount, turnConfig, rotLog, auxVars>>

turnVars == <<pc, attempt, maxAttempts, isAutoRefine, err, thrown, chunks, usage,
              genAttempts, genRequests, embedRequests, recov,
              loopKeyCount, turnConfig>>

----------------------------------------------------------------------------
(* Bounds of the model *)

MaxKeys == 2        \* longest key list a configuration carries (Spec)
MaxReconfig == 1    \* startChat calls while one turn is suspended
MaxChunks == 1      \* stream fragments of one attempt
MaxRotateKeys == 4  \* longest key list of SpecRotate
MaxCalls == 6       \* direct rotateKey calls after one startChat (SpecRotate)
MaxFragments == 3   \* chunks the streams of one turn deliver (SpecStream)
MaxStreamAttempts == 2  \* attempts of one turn (SpecStream)
MaxFiles == 2       \* knowledge files of one retrieval (SpecRetrieve)
ManyChunks == 21    \* chunks of the longest knowledge file (SpecRetrieve)
MaxTextLen == 4     \* longest text of a direct chunkText call (SpecIngest)
MaxChunkSize == 5   \* largest chunk size of a direct chunkText call (SpecIngest)
MaxClock == 4       \* last value of Date.now() at which a handler makes ids (SpecApp)
MaxYields == 2      \* items with text one stream yields to the application (SpecApp)
ComparedRuns == 2    \* calls of sendMessageStream compared with each other (SpecCompose)
LongHistory == 25   \* messages of the longest previous history (SpecCompose)

----------------------------------------------------------------------------
(* Values *)

Max(a, b) == IF a >= b THEN a ELSE b

\* String.prototype.includes
Includes(s, t) ==
    \E i \in 1..(Len(s) - Len(t) + 1) : SubSeq(s, i, i + Len(t) - 1) = t

\* ids of AVAILABLE_MODELS: the fast model, the model initializeSession renames,
\* and one of the two "pro" models
Models == {"gemini-2.5-flash", "gemini-2.5-flash-thinking", "gemini-3-pro-preview"}

FALLBACK_MODEL == "gemini-2.5-flash"

KeyName(i) == "key" \o ToString(i)

\* the key lists a configuration may carry: key1..keyn, n = 0..MaxKeys
KeyLists == {[i \in 1..n |-> KeyName(i)] : n \in 0..MaxKeys}

EnvKeys == {"", "envkey"}

\* AppConfig, reduced to the fields the service reads again on every attempt.
\* knowledgeFiles and enableAutoRefine are read once per turn (lines 523, 557):
\* their values enter as inputs of the steps that read them.
Configs == [model : Models, apiKeys : KeyLists]

NoConfig == [model |-> "", apiKeys |-> <<>>]

NoSession == [key |-> "", model |-> ""]

NoError == [message |-> "", status |-> -1]

ErrNotInitialized ==
    [message |-> "Chat session not initialized. Please ensure API Key is set.", status |-> 0]
ErrNoApiKey ==
    [message |-> "No API Key provided. Please add one in Settings.", status |-> 0]
ErrCouldNotInit ==
    [message |-> "Could not initialize chat session", status |-> 0]
SafetyError ==
    [message |-> "Content blocked by Safety Settings. Try lowering sensitivity in Settings.", status |-> 0]

\* the TypeError of reading .text of draftResponse.response when the response
\* object has no response property
DraftReadError ==
    [message |-> "Cannot read properties of undefined (reading 'text')", status |-> 0]

\* nothing was yielded yet
NoUsage == [inputTokens |-> -1, outputTokens |-> -1, totalTokens |-> -1]

NoUpdate == [text |-> "", thought |-> "", groundingMetadata |-> FALSE,
             usageMetadata |-> NoUsage]

\* chunks a result stream may deliver: text cut inside a tag, text holding
\* whole tags, and a chunk that carries grounding metadata and no text
Fragments ==
    { [text |-> "abc<thou", groundingMetadata |-> FALSE],
      [text |-> "ght>hidden</thou", groundingMetadata |-> FALSE],
      [text |-> "ght>def", groundingMetadata |-> FALSE],
      [text |-> "a<thought>b", groundingMetadata |-> FALSE],
      [text |-> "c</thought>d", groundingMetadata |-> FALSE],
      [text |-> "", groundingMetadata |-> TRUE] }

\* no retrieval has returned
NoContext == [returned |-> FALSE, chunks |-> <<>>, fragment |-> <<>>]

\* getRelevantContext returned ""
EmptyContext == [returned |-> TRUE, chunks |-> <<>>, fragment |-> <<>>]

\* no client was asked for yet
NoKey == "none"

\* getClient returned null
NoClient == ""

\* names of knowledge files
DocName(i) == "doc" \o ToString(i)

\* const MAX_RAG_CHARS of getRelevantContext
MAX_RAG_CHARS == 150000

\* a chunk of a knowledge file, as retrieval sees it: the length of its text
\* and its cosine similarity to the query in thousandths
Chunk(len, score) == [len |-> len, score |-> score]

\* chunk lists of knowledge files as the type allows them (files come from
\* vectorizeFile or from the stored configuration): none; scores at and just
\* above the threshold; more good chunks than a fragment takes; chunks as long
\* as the character budget; chunks that fill the budget together
ChunkLists ==
    { <<>>,
      <<Chunk(1000, 400), Chunk(1, 401)>>,
      [i \in 1..ManyChunks |-> Chunk(1000, 900)],
      <<Chunk(150000, 950), Chunk(149999, 600)>>,
      <<Chunk(75000, 800), Chunk(74999, 700), Chunk(1, 500)>> }

\* KnowledgeFile: isActive is true, false or missing; missing chunks count
\* as an empty list
KnowledgeFiles ==
    [name : {DocName(i) : i \in 1..MaxFiles},
     isActive : {"true", "false", "undefined"}, chunks : ChunkLists]

\* const CHUNK_SIZE_CHARS
CHUNK_SIZE_CHARS == 1000

\* s repeated n times
RECURSIVE Repeat(_, _)
Repeat(s, n) ==
    IF n = 0 THEN ""
    ELSE IF n % 2 = 0 THEN LET h == Repeat(s, n \div 2) IN h \o h
    ELSE s \o Repeat(s, n - 1)

\* the texts over two letters of a given length
RECURSIVE TextsOfLen(_)
TextsOfLen(n) ==
    IF n = 0 THEN {""}
    ELSE {t \o c : t \in TextsOfLen(n - 1), c \in {"a", "b"}}

\* texts of the direct chunkText calls
Texts == UNION {TextsOfLen(n) : n \in 0..MaxTextLen}

\* file contents handed to vectorizeFile: empty; a second chunk of 49 and of 50
\* characters; one chunk whose trimmed length is 49 and 50; a chunk of
\* white space between two chunks of text
Contents ==
    { "",
      Repeat("a", 1000) \o Repeat("b", 49),
      Repeat("a", 1000) \o Repeat("b", 50),
      Repeat(" ", 30) \o Repeat("c", 49) \o Repeat(" ", 30),
      Repeat(" ", 30) \o Repeat("c", 50) \o "\n\t",
      Repeat("a", 1000) \o Repeat(" ", 1000) \o Repeat("b", 60) }

\* chunkText was not called yet
NoChunking == [text |-> "", size |-> 0, chunks |-> <<>>]

\* vectorizeFile was not called / has not returned
NoVecArgs == [content |-> "", apiKey |-> ""]
NoFile == [content |-> "", chunks |-> <<>>, isActive |-> "undefined"]

\* estimateImageTokens()
estimateImageTokens == 258

\* a MemoryItem and a CharacterProfile, reduced to the fields that are printed
Memory(content) == [content |-> content]
Profile(name, description, currentStatus) ==
    [name |-> name, description |-> description, currentStatus |-> currentStatus]

\* a ChatMessage of the previous history; isError is true, false or missing
Message(role, text, isError) == [role |-> role, text |-> text, isError |-> isError]

\* previous histories: none; a short one with an error turn and an empty
\* turn; a long one with exactly 20 turns that qualify; a long one with more
Histories ==
    { <<>>,
      <<Message("user", "a", "undefined"), Message("model", "", "undefined"),
        Message("user", "b", "false"), Message("model", "failed", "true")>>,
      [i \in 1..(LongHistory - 3) |->
          Message(IF i % 2 = 1 THEN "user" ELSE "model",
                  IF i = 5 THEN "" ELSE "t" \o ToString(i),
                  IF i = LongHistory - 4 THEN "true" ELSE "undefined")],
      [i \in 1..LongHistory |->
          Message(IF i % 2 = 1 THEN "user" ELSE "model", "t" \o ToString(i),
                  IF i = LongHistory - 1 THEN "true" ELSE "undefined")] }

\* arguments of a turn: text, number of attached files, previous history,
\* story summary
CallArgs ==
    [text : {"", "hello"}, files : {0, 2}, previousHistory : {<<>>},
     storySummary : {"", "so far"}]
    \cup [text : {"hello"}, files : {0}, previousHistory : Histories,
          storySummary : {""}]

NoArgs == [text |-> "", files |-> 0, previousHistory |-> <<>>, storySummary |-> ""]

\* AppConfig with the fields the composition reads
ComposeConfigs ==
    [model : {FALLBACK_MODEL}, apiKeys : {<<KeyName(1)>>},
     memories : {<<>>, <<Memory("m1"), Memory("m2")>>},
     characterProfiles : {<<>>, <<Profile("Ann", "tall", "home")>>},
     knowledgeFiles : {<<>>, <<[name |-> DocName(1), isActive |-> "true",
                                chunks |-> <<Chunk(1000, 400), Chunk(1, 401)>>]>>},
     targetWordCount : {500, 501}]

\* no handleSendMessage call is in flight
NoTurn == [userId |-> 0, modelId |-> 0, text |-> ""]

\* the list of sessions is empty
NoSessions == [id \in {} |-> <<>>]

\* a ChatMessage of the conversation; isError is true or missing
AppMessage(id, role, text, isError) ==
    [id |-> id, role |-> role, text |-> text, isError |-> isError]

\* what the user sends: a text, or white space along with an attachment
\* a vector argument of cosineSimilarity, present or missing
Vector(values) == [missing |-> FALSE, values |-> values]
NoVector == [missing |-> TRUE, values |-> <<>>]
NoVectors == [a |-> NoVector, b |-> NoVector]

\* a number returned as it is, and the quotient dividend / sqrt(divisorSq)
Returned(n) == [divided |-> FALSE, dividend |-> n, divisorSq |-> 1]
Quotient(n, dSq) == [divided |-> TRUE, dividend |-> n, divisorSq |-> dSq]

AppInputs == {[text |-> "hi", attachments |-> 0], [text |-> " ", attachments |-> 1],
              [text |-> " ", attachments |-> 0]}

\* messages of the errors sendMessageStream throws
AppErrors == {ErrNoApiKey.message}

\* no composition was completed
NoRun == [args |-> NoArgs, callConfig |-> NoConfig, endConfig |-> NoConfig,
          queryVector |-> "none", finalPrompt |-> "", inputTokens |-> -1]

\* values of inputTokens at the end of the composition
InputTokenCounts == {1, 259}

\* errors the backend (SDK) may raise from a request or a stream read
BackendErrors ==
    { [message |-> "got 429", status |-> 0],
      [message |-> "exhausted", status |-> 429],
      [message |-> "SAFETY stop", status |-> 0],
      [message |-> "Quota: blocked", status |-> 0],
      [message |-> "fetch failed", status |-> 0] }

----------------------------------------------------------------------------
(* Pure parts of the service *)

isQuotaError(e) ==
    \/ Includes(e.message, "429")
    \/ e.status = 429
    \/ Includes(e.message, "Quota")
    \/ Includes(e.message, "403")

isSafetyError(e) ==
    \/ Includes(e.message, "SAFETY")
    \/ Includes(e.message, "blocked")

\* faulty variant: the quota test is made before the safety test
ErrorClassQuotaFirst(e) ==
    IF isQuotaError(e) THEN "quota"
    ELSE IF isSafetyError(e) THEN "safety"
    ELSE "other"

\* faulty variant: every error that is not a safety error is retried like a quota error
ErrorClassRetryAll(e) ==
    IF isSafetyError(e) THEN "safety" ELSE "quota"

\* the order of the tests in the catch block
ErrorClass(e) ==
    IF isSafetyError(e) THEN "safety"
    ELSE IF isQuotaError(e) THEN "quota"
    ELSE "other"

\* faulty variant: no fallback, a pro model goes straight to rotation
ShouldFallbackNever(model) == FALSE

\* this.currentConfig.model.includes('pro')
ShouldFallback(model) == Includes(model, "pro")

\* faulty variant: the guard lets the index step past the last key
rotateKeyPastEnd(idx, keys) ==
    IF idx < Len(keys) THEN [ok |-> TRUE, index |-> idx + 1]
    ELSE [ok |-> FALSE, index |-> idx]

\* faulty variant: rotation wraps around to the first key
rotateKeyWrap(idx, keys) ==
    IF Len(keys) > 0 THEN [ok |-> TRUE, index |-> (idx + 1) % Len(keys)]
    ELSE [ok |-> FALSE, index |-> idx]

\* rotateKey: the value returned and the index left behind
rotateKey(idx, keys) ==
    IF idx < Len(keys) - 1 THEN [ok |-> TRUE, index |-> idx + 1]
    ELSE [ok |-> FALSE, index |-> idx]

\* faulty variant: the fallback retries without writing the fast model into
\* the configuration
RecoveryKeepsModel(e, model, idx, keys) ==
    LET cls == ErrorClass(e) IN
    IF cls = "quota" /\ ShouldFallback(model)
    THEN [branch |-> "fallback", model |-> model, index |-> idx]
    ELSE IF cls = "quota"
    THEN LET r == rotateKey(idx, keys) IN
         [branch |-> IF r.ok THEN "rotate" ELSE "exhausted",
          model |-> model, index |-> r.index]
    ELSE [branch |-> cls, model |-> model, index |-> idx]

\* faulty variant: the fallback also consumes a credential
RecoveryConflated(e, model, idx, keys) ==
    LET cls == ErrorClass(e) IN
    IF cls = "quota" /\ ShouldFallback(model)
    THEN [branch |-> "fallback", model |-> FALLBACK_MODEL,
          index |-> rotateKey(idx, keys).index]
    ELSE IF cls = "quota"
    THEN LET r == rotateKey(idx, keys) IN
         [branch |-> IF r.ok THEN "rotate" ELSE "exhausted",
          model |-> FALLBACK_MODEL, index |-> r.index]
    ELSE [branch |-> cls, model |-> model, index |-> idx]

\* the catch block: which branch is taken, and the model and index it leaves
Recovery(e, model, idx, keys) ==
    LET cls == ErrorClass(e) IN
    IF cls = "quota" /\ ShouldFallback(model)
    THEN [branch |-> "fallback", model |-> FALLBACK_MODEL, index |-> idx]
    ELSE IF cls = "quota"
    THEN LET r == rotateKey(idx, keys) IN
         [branch |-> IF r.ok THEN "rotate" ELSE "exhausted",
          model |-> model, index |-> r.index]
    ELSE [branch |-> cls, model |-> model, index |-> idx]

\* faulty variant: a successful rotation is not counted as an attempt
attemptAfterUncounted(att, branch) == att

\* attempt++ after a successful rotation only
attemptAfter(att, branch) == IF branch = "rotate" THEN att + 1 ELSE att

maxAttemptsOf(keys) == Max(1, Len(keys))

\* faulty variant: startChat keeps the index it finds
startChatIndexKept(idx) == idx

\* startChat: this.currentKeyIndex = 0
startChatIndex(idx) == 0

\* startChat: the key list taken from the configuration or the environment
startChatKeys(appConfig, env) ==
    IF Len(appConfig.apiKeys) > 0 THEN appConfig.apiKeys
    ELSE IF env # "" THEN <<env>>
    ELSE <<>>

\* initializeSession: model id sent to the backend
actualModel(model) ==
    IF model = "gemini-2.5-flash-thinking" THEN "gemini-2.5-flash" ELSE model

\* initializeSession: the session it leaves in this.chatSession
initializeSession(session, cfg, keys, idx) ==
    IF Len(keys) = 0 THEN session
    ELSE IF cfg = NoConfig THEN session
    ELSE [key |-> keys[idx + 1], model |-> actualModel(cfg.model)]

\* faulty variant: the missing-key test of sendMessageStream is left out
sendPrecheckNoKeyTest(cfg, keys) ==
    IF cfg = NoConfig THEN "notinit" ELSE "ok"

\* the two guards at the head of sendMessageStream
sendPrecheck(cfg, keys) ==
    IF cfg = NoConfig THEN "notinit"
    ELSE IF Len(keys) = 0 THEN "nokey"
    ELSE "ok"

\* faulty variant: the length divided by 4 is rounded down
estimateTokensFloor(text) == Len(text) \div 4

\* estimateTokens: Math.ceil(text.length / 4)
estimateTokens(text) == (Len(text) + 3) \div 4

\* String.prototype.indexOf: 0-based position of the first occurrence, or -1
IndexOf(s, t) ==
    IF Includes(s, t)
    THEN CHOOSE i \in 0..(Len(s) - Len(t)) :
            /\ SubSeq(s, i + 1, i + Len(t)) = t
            /\ \A j \in 0..(i - 1) : SubSeq(s, j + 1, j + Len(t)) # t
    ELSE -1

\* String.prototype.slice(from) and slice(0, to), 0-based
SliceFrom(s, from) == SubSeq(s, from + 1, Len(s))
SliceTo(s, to) == SubSeq(s, 1, to)

\* faulty variant: the text before an opening tag is dropped
RECURSIVE ParseBufferDropsPrefix(_, _, _, _)
ParseBufferDropsPrefix(buf, inThought, text, thought) ==
    IF Len(buf) = 0
    THEN [buffer |-> buf, inThoughtBlock |-> inThought,
          processedChunkText |-> text, processedChunkThought |-> thought]
    ELSE IF ~inThought
    THEN LET startTagIndex == IndexOf(buf, "<thought>") IN
         IF startTagIndex # -1
         THEN ParseBufferDropsPrefix(SliceFrom(buf, startTagIndex + 9), TRUE,
                                     text, thought)
         ELSE ParseBufferDropsPrefix("", inThought, text \o buf, thought)
    ELSE LET endTagIndex == IndexOf(buf, "</thought>") IN
         IF endTagIndex # -1
         THEN ParseBufferDropsPrefix(SliceFrom(buf, endTagIndex + 10), FALSE, text,
                                     thought \o SliceTo(buf, endTagIndex))
         ELSE ParseBufferDropsPrefix("", inThought, text, thought \o buf)

\* the while (buffer.length > 0) loop of the stream parser, lines 618-644
RECURSIVE ParseBuffer(_, _, _, _)
ParseBuffer(buf, inThought, text, thought) ==
    IF Len(buf) = 0
    THEN [buffer |-> buf, inThoughtBlock |-> inThought,
          processedChunkText |-> text, processedChunkThought |-> thought]
    ELSE IF ~inThought
    THEN LET startTagIndex == IndexOf(buf, "<thought>") IN
         IF startTagIndex # -1
         THEN ParseBuffer(SliceFrom(buf, startTagIndex + 9), TRUE,
                          text \o SliceTo(buf, startTagIndex), thought)
         ELSE ParseBuffer("", inThought, text \o buf, thought)
    ELSE LET endTagIndex == IndexOf(buf, "</thought>") IN
         IF endTagIndex # -1
         THEN ParseBuffer(SliceFrom(buf, endTagIndex + 10), FALSE, text,
                          thought \o SliceTo(buf, endTagIndex))
         ELSE ParseBuffer("", inThought, text, thought \o buf)

\* faulty variant: inactive files are not filtered out
ActiveFilesAll(files) == files

Min(a, b) == IF a <= b THEN a ELSE b

\* String.prototype.slice(from, to) for 0 <= from <= to
Slice(s, from, to) == SubSeq(s, from + 1, Min(to, Len(s)))

\* faulty variant: a last chunk shorter than size is dropped
RECURSIVE chunkTextWholeOnly(_, _, _)
chunkTextWholeOnly(text, size, i) ==
    IF i + size <= Len(text)
    THEN <<Slice(text, i, i + size)>> \o chunkTextWholeOnly(text, size, i + size)
    ELSE <<>>

\* the loop of chunkText, entered with its counter at i
RECURSIVE chunkTextFrom(_, _, _)
chunkTextFrom(text, size, i) ==
    IF i < Len(text)
    THEN <<Slice(text, i, i + size)>> \o chunkTextFrom(text, size, i + size)
    ELSE <<>>

\* chunkText(text, size)
chunkText(text, size) == chunkTextFrom(text, size, 0)

\* white space as String.prototype.trim removes it
IsSpace(s, i) == SubSeq(s, i, i) \in {" ", "\n", "\t", "\r"}

\* String.prototype.trim
trim(s) ==
    IF \A i \in 1..Len(s) : IsSpace(s, i) THEN ""
    ELSE LET first == CHOOSE i \in 1..Len(s) :
                         ~IsSpace(s, i) /\ \A j \in 1..(i - 1) : IsSpace(s, j)
             last == CHOOSE i \in 1..Len(s) :
                         ~IsSpace(s, i) /\ \A j \in (i + 1)..Len(s) : IsSpace(s, j)
         IN  SubSeq(s, first, last)

\* faulty variant: no chunk is too short to be embedded
tooShortNever(chunk) == FALSE

\* chunk.trim().length < 50, line 158
tooShort(chunk) == Len(trim(chunk)) < 50

\* the for-of loop of vectorizeFile from position i (0-based) on: the position
\* of the next chunk that is handed to embedText, Len(list) when there is none
RECURSIVE nextToEmbed(_, _)
nextToEmbed(list, i) ==
    IF i >= Len(list) THEN Len(list)
    ELSE IF tooShort(list[i + 1]) THEN nextToEmbed(list, i + 1)
    ELSE i

\* Array.prototype.join
RECURSIVE Join(_, _)
Join(q, sep) ==
    IF q = <<>> THEN ""
    ELSE IF Len(q) = 1 THEN q[1]
    ELSE q[1] \o sep \o Join(Tail(q), sep)

\* Array.prototype.slice(-n)
SliceLast(q, n) == SubSeq(q, Max(1, Len(q) - n + 1), Len(q))

\* faulty variant: the first 20 turns that qualify
recentHistoryFirst(previousHistory) ==
    LET q == SelectSeq(previousHistory, LAMBDA m : m.isError # "true" /\ m.text # "")
    IN  SubSeq(q, 1, Min(20, Len(q)))

\* previousHistory.filter(m => !m.isError && m.text).slice(-20), lines 486-488
recentHistory(previousHistory) ==
    SliceLast(SelectSeq(previousHistory, LAMBDA m : m.isError # "true" /\ m.text # ""), 20)

\* lines 490-494
sdkHistoryOf(recent) ==
    [i \in 1..Len(recent) |->
        [role |-> IF recent[i].role = "user" THEN "user" ELSE "model",
         text |-> recent[i].text]]

\* formatMemories
formatMemories(memories) ==
    IF Len(memories) = 0 THEN ""
    ELSE Join([i \in 1..Len(memories) |-> "- " \o memories[i].content], "\n")

\* formatCharacterProfiles
formatCharacterProfiles(profiles) ==
    IF Len(profiles) = 0 THEN ""
    ELSE Join([i \in 1..Len(profiles) |->
                  "\n[CHARACTER]\nName: " \o profiles[i].name
                  \o "\nDescription: " \o profiles[i].description
                  \o "\nStatus: " \o profiles[i].currentStatus \o "\n"], "\n")

\* the text getRelevantContext returns for a fragment, lines 217-222; the
\* text of a chunk is written as its length in letters x
joinFragment(fragment) ==
    Join([i \in 1..Len(fragment) |->
             "\n<story_bible_fragment source=\"" \o fragment[i].source
             \o "\" relevance=\"" \o fragment[i].relevance \o "\">\n"
             \o Repeat("x", fragment[i].len) \o "\n</story_bible_fragment>"], "\n")

\* the sections of the prompt, lines 504, 511, 518, 526, 534
summarySection(storySummary) ==
    "\nTHE STORY SO FAR:\n<narrative_context>\n" \o storySummary \o "\n</narrative_context>"
memorySection(memoryText) ==
    "\nLONG-TERM MEMORY:\n<memory_bank>\n" \o memoryText \o "\n</memory_bank>"
characterSection(charText) ==
    "\nCHARACTER NOTES:\n<character_profiles>\n" \o charText \o "\n</character_profiles>"
knowledgeSection(relevantContext) ==
    "\nSTORY BIBLE CONTEXT:\n<active_story_context>\n" \o relevantContext
    \o "\n</active_story_context>"
constraintPrompt(target) ==
    "\n[SYSTEM MANDATE]\nGenerate approx " \o ToString(target)
    \o " words. Expand every detail."

\* lines 498-520: what the composition holds when it reaches the knowledge
\* base, as [contextParts, inputTokens]
composeStart(text, storySummary, cfg) ==
    LET p1 == IF storySummary # "" THEN <<summarySection(storySummary)>> ELSE <<>>
        t1 == estimateTokens(text)
              + (IF storySummary # "" THEN estimateTokens(storySummary) ELSE 0)
        memoryText == formatMemories(cfg.memories)
        p2 == IF Len(cfg.memories) > 0 THEN Append(p1, memorySection(memoryText)) ELSE p1
        t2 == t1 + (IF Len(cfg.memories) > 0 THEN estimateTokens(memoryText) ELSE 0)
        charText == formatCharacterProfiles(cfg.characterProfiles)
        p3 == IF Len(cfg.characterProfiles) > 0
              THEN Append(p2, characterSection(charText)) ELSE p2
        t3 == t2 + (IF Len(cfg.characterProfiles) > 0 THEN estimateTokens(charText) ELSE 0)
    IN  [contextParts |-> p3, inputTokens |-> t3]

\* faulty variant: the knowledge section is added for an empty result as well
includeContextAlways(relevantContext) == TRUE

\* if (relevantContext), line 525
includeContext(relevantContext) == relevantContext # ""

\* lines 525-554: the rest of the composition, from the result of the
\* retrieval on, as [contextParts, inputTokens, finalPrompt, messageInput];
\* messageInput is the text alone or the list of the file parts and the text
composeEnd(parts, tokens, relevantContext, text, files, cfg) ==
    LET p4 == IF includeContext(relevantContext)
              THEN Append(parts, knowledgeSection(relevantContext)) ELSE parts
        t4 == tokens + (IF includeContext(relevantContext)
                        THEN estimateTokens(relevantContext) ELSE 0)
        mandate == cfg.targetWordCount # 0 /\ cfg.targetWordCount > 500
        p5 == IF mandate THEN Append(p4, constraintPrompt(cfg.targetWordCount)) ELSE p4
        t5 == t4 + (IF mandate THEN estimateTokens(constraintPrompt(cfg.targetWordCount))
                    ELSE 0)
        prompt == IF Len(p5) > 0 THEN Join(p5, "\n") \o "\n\nUSER INPUT: " \o text
                  ELSE text
    IN  [contextParts |-> p5,
         inputTokens |-> t5 + files * estimateImageTokens,
         finalPrompt |-> prompt,
         messageInput |-> IF files > 0
                          THEN [parts |-> files,
                                text |-> IF trim(prompt) # "" THEN <<prompt>> ELSE <<>>]
                          ELSE [parts |-> 0, text |-> <<prompt>>]]

\* faulty variant: a file without the flag counts as inactive
ActiveFilesFlagged(files) == SelectSeq(files, LAMBDA f : f.isActive = "true")

\* files.filter(f => f.isActive !== false)
ActiveFiles(files) == SelectSeq(files, LAMBDA f : f.isActive # "false")

\* activeFiles.filter(f => f.chunks && f.chunks.length > 0)
VectorizedFiles(files) == SelectSeq(ActiveFiles(files), LAMBDA f : Len(f.chunks) > 0)

\* lines 187-199: the chunks of the files in file order, each with its score
\* and the name of its file; pos, the place of the chunk in its file, stands
\* for the chunk's text
RECURSIVE AllChunks(_)
AllChunks(files) ==
    IF files = <<>> THEN <<>>
    ELSE LET file == Head(files) IN
         [k \in 1..Len(file.chunks) |->
             [len |-> file.chunks[k].len, score |-> file.chunks[k].score,
              source |-> file.name, pos |-> k]]
         \o AllChunks(Tail(files))

\* Array.prototype.sort with (a, b) => b.score - a.score: descending and stable
RECURSIVE InsertByScore(_, _)
InsertByScore(sorted, c) ==
    IF sorted = <<>> THEN <<c>>
    ELSE IF Head(sorted).score >= c.score
    THEN <<Head(sorted)>> \o InsertByScore(Tail(sorted), c)
    ELSE <<c>> \o sorted

\* faulty variant: the chunks stay in file order
SortByScoreKeepOrder(q) == q

RECURSIVE SortByScore(_)
SortByScore(q) ==
    IF q = <<>> THEN <<>>
    ELSE InsertByScore(SortByScore(SubSeq(q, 1, Len(q) - 1)), q[Len(q)])

\* faulty variant: the character budget is not tested
RECURSIVE SelectChunksNoBudget(_, _, _)
SelectChunksNoBudget(rest, selectedChunks, currentChars) ==
    IF rest = <<>> THEN selectedChunks
    ELSE LET chunk == Head(rest)
             take == chunk.score > 400
             sel == IF take THEN Append(selectedChunks, chunk) ELSE selectedChunks
             chars == IF take THEN currentChars + chunk.len ELSE currentChars
         IN  IF Len(sel) >= 20 THEN sel
             ELSE SelectChunksNoBudget(Tail(rest), sel, chars)

\* the selection loop, lines 203-215 (score > 0.4 in thousandths)
RECURSIVE SelectChunks(_, _, _)
SelectChunks(rest, selectedChunks, currentChars) ==
    IF rest = <<>> THEN selectedChunks
    ELSE LET chunk == Head(rest)
             take == chunk.score > 400 /\ currentChars + chunk.len < MAX_RAG_CHARS
             sel == IF take THEN Append(selectedChunks, chunk) ELSE selectedChunks
             chars == IF take THEN currentChars + chunk.len ELSE currentChars
         IN  IF Len(sel) >= 20 THEN sel
             ELSE SelectChunks(Tail(rest), sel, chars)

\* getClient without an override key: is there a client to send with
hasClient(keys, session) == Len(keys) > 0 \/ session # NoSession

\* getClient(overrideKey): the key of the client it returns, NoClient for null.
\* this.ai is the client initializeSession built together with the session.
getClient(overrideKey, keys, session) ==
    IF overrideKey # "" THEN overrideKey
    ELSE IF Len(keys) > 0 THEN keys[1]
    ELSE IF session # NoSession THEN session.key
    ELSE NoClient

\* Number.prototype.toFixed(2) of a score given in thousandths (scores that
\* end in 5 thousandths depend on the binary value and are not among the inputs)
toFixed2(score) ==
    LET h == (score + 5) \div 10
        frac == h % 100
    IN  ToString(h \div 100) \o "." \o (IF frac < 10 THEN "0" ELSE "") \o ToString(frac)

\* selectedChunks.map(...), lines 219-222: one tagged block per selected chunk,
\* with the name of its file, its score to two decimals and its text
renderFragment(selectedChunks) ==
    [i \in 1..Len(selectedChunks) |->
        [source |-> selectedChunks[i].source,
         relevance |-> toFixed2(selectedChunks[i].score),
         pos |-> selectedChunks[i].pos, len |-> selectedChunks[i].len]]

----------------------------------------------------------------------------
(* State machine *)

Idle == {"idle", "done", "fail"}
AwaitPoints == {"retrieve", "draft", "open", "stream"}

Init ==
    /\ currentConfig = NoConfig
    /\ apiKeys = <<>>
    /\ currentKeyIndex = 0
    /\ chatSession = NoSession
    /\ envKey \in EnvKeys
    /\ pc = "idle"
    /\ attempt = 0
    /\ maxAttempts = 0
    /\ isAutoRefine = FALSE
    /\ err = NoError
    /\ thrown = NoError
    /\ chunks = 0
    /\ usage = FALSE
    /\ genAttempts = 0
    /\ genRequests = 0
    /\ embedRequests = 0
    /\ recov = <<>>
    /\ reconfigs = 0
    /\ loopKeyCount = 0
    /\ turnConfig = NoConfig
    /\ rotLog = <<>>
    /\ resultStream = <<>>
    /\ received = <<>>
    /\ buffer = ""
    /\ inThoughtBlock = FALSE
    /\ fullOutputText = ""
    /\ fullThoughtText = ""
    /\ inputTokens = 0
    /\ update = NoUpdate
    /\ updates = 0
    /\ consumed = 0
    /\ deliveredText = ""
    /\ ragPc = "idle"
    /\ knowledgeFiles = <<>>
    /\ queryVector = "none"
    /\ embedKey = NoKey
    /\ context = NoContext
    /\ chunked = NoChunking
    /\ vecPc = "idle"
    /\ vecArgs = NoVecArgs
    /\ vecIndex = 0
    /\ vectorChunks = <<>>
    /\ vecSent = <<>>
    /\ vecPending = 0
    /\ vecOk = {}
    /\ vecFile = NoFile
    /\ args = NoArgs
    /\ sdkHistory = <<>>
    /\ contextParts = <<>>
    /\ finalPrompt = ""
    /\ messageInput = [parts |-> 0, text |-> <<>>]
    /\ callConfig = NoConfig
    /\ endConfig = NoConfig
    /\ runs = 0
    /\ firstRun = NoRun
    /\ messages = <<>>
    /\ isLoading = FALSE
    /\ appPc = "idle"
    /\ appTurn = NoTurn
    /\ fullText = ""
    /\ currentSessionId = 0
    /\ sessions = NoSessions
    /\ clock = 1
    /\ outcome = "none"
    /\ failure = ""
    /\ turnCount = 0
    /\ openStreams = 0
    /\ seenMessages = <<>>
    /\ isSummarizing = FALSE
    /\ extracting = 0
    /\ extractLog = <<>>
    /\ appMemories = <<>>
    /\ cosArgs = NoVectors
    /\ cosResult = Returned(0)
    /\ stopSequences = <<>>
    /\ newStopSequence = ""
    /\ stopOp = [op |-> "none", arg |-> "", key |-> ""]
    /\ upFiles = <<>>
    /\ upPc = "idle"
    /\ upIndex = 0
    /\ newFiles = <<>>
    /\ isProcessing = FALSE
    /\ panelFiles = <<>>
    /\ upOutcomes = <<>>
    /\ uploads = 0
    /\ ttsCache = <<>>
    /\ audioHeap = <<>>
    /\ speechPending = <<>>
    /\ speechLog = <<>>

\* the record of a finished turn is dropped when the service is set up again
ClearTurn ==
    /\ pc' = "idle"
    /\ attempt' = 0
    /\ maxAttempts' = 0
    /\ isAutoRefine' = FALSE
    /\ err' = NoError
    /\ thrown' = NoError
    /\ chunks' = 0
    /\ usage' = FALSE
    /\ genAttempts' = 0
    /\ genRequests' = 0
    /\ embedRequests' = 0
    /\ recov' = <<>>
    /\ reconfigs' = 0
    /\ loopKeyCount' = 0
    /\ turnConfig' = NoConfig

\* startChat(appConfig), between turns or while the turn is suspended: what
\* it does to the service
startChat(appConfig) ==
    /\ \/ pc \in Idle /\ ClearTurn
       \/ /\ pc \in AwaitPoints
          /\ reconfigs < MaxReconfig
          /\ reconfigs' = reconfigs + 1
          /\ UNCHANGED turnVars
    /\ currentConfig' = appConfig
    /\ apiKeys' = startChatKeys(appConfig, envKey)
    /\ currentKeyIndex' = startChatIndex(currentKeyIndex)
    /\ rotLog' = <<>>
    /\ UNCHANGED <<chatSession, envKey>>

\* startChat(appConfig) called by the initChat effect
StartChat(appConfig) ==
    /\ startChat(appConfig)
    /\ UNCHANGED auxVars

\* lines 556-570: isAutoRefine, attempt and maxAttempts are fixed on entering the loop
EnterLoop(enableAutoRefine) ==
    /\ isAutoRefine' = enableAutoRefine
    /\ attempt' = 0
    /\ maxAttempts' = maxAttemptsOf(apiKeys)
    /\ loopKeyCount' = Len(apiKeys)
    /\ pc' = "loop"

\* sendMessageStream is called: the guards, then context composition up to
\* the first await (the query embedding) or, without knowledge, up to the loop.
\* hasKnowledge: knowledgeFiles holds an active file with chunks (SpecRetrieve
\* has the retrieval itself).
Send(hasKnowledge, enableAutoRefine) ==
    /\ pc \in Idle
    /\ err' = NoError
    /\ chunks' = 0
    /\ usage' = FALSE
    /\ genAttempts' = 0
    /\ genRequests' = 0
    /\ recov' = <<>>
    /\ reconfigs' = 0
    /\ turnConfig' = [model |-> currentConfig.model, apiKeys |-> apiKeys]
    /\ \E g \in {sendPrecheck(currentConfig, apiKeys)} :
       IF g = "notinit" THEN
            /\ pc' = "fail" /\ thrown' = ErrNotInitialized
            /\ embedRequests' = 0
            /\ UNCHANGED <<attempt, maxAttempts, isAutoRefine, loopKeyCount>>
       ELSE IF g = "nokey" THEN
            /\ pc' = "fail" /\ thrown' = ErrNoApiKey
            /\ embedRequests' = 0
            /\ UNCHANGED <<attempt, maxAttempts, isAutoRefine, loopKeyCount>>
       ELSE IF hasKnowledge THEN
            /\ pc' = "retrieve" /\ thrown' = NoError
            /\ embedRequests' = 1
            /\ UNCHANGED <<attempt, maxAttempts, isAutoRefine, loopKeyCount>>
       ELSE /\ thrown' = NoError
            /\ embedRequests' = 0
            /\ EnterLoop(enableAutoRefine)
    /\ UNCHANGED <<currentConfig, apiKeys, currentKeyIndex, chatSession, envKey, rotLog, auxVars>>

\* the query embedding returned (a vector or null): the rest of the composition
RetrieveDone(enableAutoRefine) ==
    /\ pc = "retrieve"
    /\ EnterLoop(enableAutoRefine)
    /\ UNCHANGED <<currentConfig, apiKeys, currentKeyIndex, chatSession, envKey,
                   err, thrown, chunks, usage, genAttempts, genRequests,
                   embedRequests, recov, reconfigs, turnConfig, rotLog, auxVars>>

\* the catch block of the attempt loop, entered with the error e
Catch(e) ==
    \E r \in {Recovery(e, currentConfig.model, currentKeyIndex, apiKeys)} :
    /\ err' = e
    /\ chunks' = 0
    /\ currentConfig' = [currentConfig EXCEPT !.model = r.model]
    /\ currentKeyIndex' = r.index
    /\ attempt' = attemptAfter(attempt, r.branch)
    /\ pc' = IF r.branch \in {"fallback", "rotate"} THEN "loop" ELSE "fail"
    /\ thrown' = IF r.branch = "safety" THEN SafetyError
                 ELSE IF r.branch \in {"exhausted", "other"} THEN e
                 ELSE thrown
    /\ recov' = IF r.branch \in {"fallback", "rotate", "exhausted"}
                THEN Append(recov, [ev |-> r.branch, index |-> currentKeyIndex,
                                    model |-> currentConfig.model])
                ELSE recov

\* while (attempt < maxAttempts) { try { initializeSession; first request
LoopTop ==
    /\ pc = "loop"
    /\ IF attempt < maxAttempts THEN
          /\ chatSession' = initializeSession(chatSession, currentConfig, apiKeys, currentKeyIndex)
          /\ genAttempts' = genAttempts + 1
          /\ IF chatSession' = NoSession
             THEN /\ Catch(ErrCouldNotInit)
                  /\ genRequests' = genRequests
             ELSE /\ pc' = IF isAutoRefine THEN "draft" ELSE "open"
                  /\ genRequests' = genRequests + 1
                  /\ UNCHANGED <<err, chunks, currentConfig, currentKeyIndex, attempt,
                                 thrown, recov>>
       ELSE
          /\ pc' = "done"
          /\ UNCHANGED <<chatSession, genAttempts, genRequests, err, chunks,
                         currentConfig, currentKeyIndex, attempt, thrown, recov>>
    /\ UNCHANGED <<apiKeys, envKey, maxAttempts, isAutoRefine, usage, embedRequests,
                   reconfigs, loopKeyCount, turnConfig, rotLog, auxVars>>

\* the draft arrived and draftResponse.response.text was read (line 589): the
\* refine request is sent on the same session
DraftOk ==
    /\ pc = "draft"
    /\ pc' = "open"
    /\ genRequests' = genRequests + 1
    /\ UNCHANGED <<currentConfig, apiKeys, currentKeyIndex, chatSession, envKey, attempt,
                   maxAttempts, isAutoRefine, err, thrown, chunks, usage, genAttempts,
                   embedRequests, recov, reconfigs, loopKeyCount, turnConfig, rotLog,
                   auxVars>>

\* sendMessageStream of the session returned the stream
OpenOk ==
    /\ pc = "open"
    /\ pc' = "stream"
    /\ UNCHANGED <<currentConfig, apiKeys, currentKeyIndex, chatSession, envKey, attempt,
                   maxAttempts, isAutoRefine, err, thrown, chunks, usage, genAttempts,
                   genRequests, embedRequests, recov, reconfigs, loopKeyCount, turnConfig,
                   rotLog, auxVars>>

\* one fragment of the stream is consumed
StreamChunk ==
    /\ pc = "stream"
    /\ chunks < MaxChunks
    /\ chunks' = chunks + 1
    /\ UNCHANGED <<currentConfig, apiKeys, currentKeyIndex, chatSession, envKey, pc, attempt,
                   maxAttempts, isAutoRefine, err, thrown, usage, genAttempts,
                   genRequests, embedRequests, recov, reconfigs, loopKeyCount, turnConfig,
                   rotLog, auxVars>>

\* the stream ended: the usage record is emitted and the generator returns
StreamEnd ==
    /\ pc = "stream"
    /\ usage' = TRUE
    /\ pc' = "done"
    /\ UNCHANGED <<currentConfig, apiKeys, currentKeyIndex, chatSession, envKey, attempt,
                   maxAttempts, isAutoRefine, err, thrown, chunks, genAttempts,
                   genRequests, embedRequests, recov, reconfigs, loopKeyCount, turnConfig,
                   rotLog, auxVars>>

\* a request or a stream read of the attempt throws e: the catch block runs
BackendError(e) ==
    /\ pc \in {"draft", "open", "stream"}
    /\ Catch(e)
    /\ UNCHANGED <<apiKeys, chatSession, envKey, maxAttempts, isAutoRefine, usage,
                   genAttempts, genRequests, embedRequests, reconfigs, loopKeyCount,
                   turnConfig, rotLog, auxVars>>

\* the draft arrived as a response object that exposes its text directly, as
\* the responses read at lines 249, 305 and 609 do: line 589 throws a TypeError
DraftReadFails ==
    /\ pc = "draft"
    /\ Catch(DraftReadError)
    /\ UNCHANGED <<apiKeys, chatSession, envKey, maxAttempts, isAutoRefine, usage,
                   genAttempts, genRequests, embedRequests, reconfigs, loopKeyCount,
                   turnConfig, rotLog, auxVars>>

\* the configurations the application hands to startChat: the stored one when
\* none is set, afterwards the current one again or with one field changed
NextConfigs ==
    IF currentConfig = NoConfig THEN Configs
    ELSE {currentConfig}
         \cup {[currentConfig EXCEPT !.model = m] : m \in Models}
         \cup {[currentConfig EXCEPT !.apiKeys = k] : k \in KeyLists}

Next ==
    \/ \E appConfig \in NextConfigs : StartChat(appConfig)
    \/ \E hasKnowledge \in BOOLEAN, enableAutoRefine \in BOOLEAN :
            Send(hasKnowledge, enableAutoRefine)
    \/ \E enableAutoRefine \in BOOLEAN : RetrieveDone(enableAutoRefine)
    \/ LoopTop
    \/ DraftOk
    \/ DraftReadFails
    \/ OpenOk
    \/ StreamChunk
    \/ StreamEnd
    \/ \E e \in BackendErrors : BackendError(e)

Spec == Init /\ [][Next]_vars

\* a step of the turn in flight: synchronous code runs on, a backend call
\* returns or fails, a stream delivers its next fragment or ends
Progress ==
    \/ \E enableAutoRefine \in BOOLEAN : RetrieveDone(enableAutoRefine)
    \/ LoopTop
    \/ DraftOk
    \/ DraftReadFails
    \/ OpenOk
    \/ StreamChunk
    \/ StreamEnd
    \/ \E e \in BackendErrors : BackendError(e)

\* every backend call eventually returns or fails and every stream is finite
SpecFair == Spec /\ WF_vars(Progress)

----------------------------------------------------------------------------
(* rotateKey called directly, any number of times after a startChat *)

RotateKeyCall ==
    /\ pc = "idle"
    /\ Len(rotLog) < MaxCalls
    /\ \E r \in {rotateKey(currentKeyIndex, apiKeys)} :
       /\ currentKeyIndex' = r.index
       /\ rotLog' = Append(rotLog, r)
    /\ UNCHANGED <<currentConfig, apiKeys, chatSession, envKey, reconfigs, auxVars>>
    /\ UNCHANGED turnVars

RotateConfigs ==
    [model : Models, apiKeys : {[i \in 1..n |-> KeyName(i)] : n \in 0..MaxRotateKeys}]

NextRotate ==
    \/ \E appConfig \in RotateConfigs : StartChat(appConfig)
    \/ RotateKeyCall

SpecRotate == Init /\ [][NextRotate]_vars

----------------------------------------------------------------------------
(* The result stream of an attempt and its parser, lines 602-672.  What the  *)
(* attempt loop decides is left open here: a failed read is followed by a    *)
(* retry (rotation or fallback) or ends the turn.                            *)

\* state of the service and of the attempt loop that the contents of a stream
\* do not touch
loopVars == <<currentConfig, apiKeys, currentKeyIndex, chatSession, envKey, attempt,
              maxAttempts, isAutoRefine, err, thrown, chunks, genRequests,
              embedRequests, recov, reconfigs, loopKeyCount, turnConfig, rotLog,
              ragVars, ingestVars, composeVars, appVars, memVars, utilVars>>

Streams == UNION {[1..n -> Fragments] : n \in 0..MaxFragments}

\* sendMessageStream is called and composes its prompt
BeginTurn(tokens) ==
    /\ pc \in Idle
    /\ pc' = "loop"
    /\ inputTokens' = tokens
    /\ genAttempts' = 0
    /\ usage' = FALSE
    /\ update' = NoUpdate
    /\ updates' = 0
    /\ consumed' = 0
    /\ deliveredText' = ""
    /\ resultStream' = <<>>
    /\ received' = <<>>
    /\ buffer' = ""
    /\ inThoughtBlock' = FALSE
    /\ fullOutputText' = ""
    /\ fullThoughtText' = ""
    /\ UNCHANGED loopVars

\* an attempt obtained its stream: lines 602-605
BeginAttempt(stream) ==
    /\ pc = "loop"
    /\ genAttempts < MaxStreamAttempts
    /\ Len(stream) <= MaxFragments - consumed
    /\ genAttempts' = genAttempts + 1
    /\ pc' = "stream"
    /\ resultStream' = stream
    /\ received' = <<>>
    /\ fullOutputText' = ""
    /\ fullThoughtText' = ""
    /\ buffer' = ""
    /\ inThoughtBlock' = FALSE
    /\ UNCHANGED <<inputTokens, usage, update, updates, consumed, deliveredText>>
    /\ UNCHANGED loopVars

\* one iteration of for await (const chunk of resultStream): lines 607-660
ConsumeChunk ==
    /\ pc = "stream"
    /\ resultStream # <<>>
    /\ \E c \in {Head(resultStream)} :
       \E r \in {ParseBuffer(buffer \o c.text, inThoughtBlock, "", "")} :
          /\ buffer' = r.buffer
          /\ inThoughtBlock' = r.inThoughtBlock
          /\ fullThoughtText' = fullThoughtText \o r.processedChunkThought
          /\ fullOutputText' = fullOutputText \o r.processedChunkText
          /\ IF \/ r.processedChunkText # ""
                \/ r.processedChunkThought # ""
                \/ c.groundingMetadata
             THEN /\ update' = [text |-> r.processedChunkText,
                                thought |-> fullThoughtText',
                                groundingMetadata |-> c.groundingMetadata,
                                usageMetadata |-> NoUsage]
                  /\ updates' = updates + 1
                  /\ deliveredText' = deliveredText \o r.processedChunkText
             ELSE UNCHANGED <<update, updates, deliveredText>>
          /\ received' = Append(received, c)
    /\ resultStream' = Tail(resultStream)
    /\ consumed' = consumed + 1
    /\ UNCHANGED <<pc, genAttempts, inputTokens, usage>>
    /\ UNCHANGED loopVars

\* the stream ended: the usage record is yielded and the generator returns
FinishStream ==
    /\ pc = "stream"
    /\ resultStream = <<>>
    /\ \E outputTokens \in {estimateTokens(fullOutputText \o fullThoughtText)} :
          update' = [text |-> "", thought |-> "", groundingMetadata |-> FALSE,
                     usageMetadata |-> [inputTokens |-> inputTokens,
                                        outputTokens |-> outputTokens,
                                        totalTokens |-> inputTokens + outputTokens]]
    /\ updates' = updates + 1
    /\ usage' = TRUE
    /\ pc' = "done"
    /\ UNCHANGED <<resultStream, received, buffer, inThoughtBlock, fullOutputText,
                   fullThoughtText, inputTokens, genAttempts, consumed, deliveredText>>
    /\ UNCHANGED loopVars

\* a read of the stream throws: the locals of the try block are gone, the catch
\* block retries or ends the turn
FailStream(retry) ==
    /\ pc = "stream"
    /\ retry => genAttempts < MaxStreamAttempts
    /\ pc' = IF retry THEN "loop" ELSE "fail"
    /\ resultStream' = <<>>
    /\ received' = <<>>
    /\ buffer' = ""
    /\ inThoughtBlock' = FALSE
    /\ fullOutputText' = ""
    /\ fullThoughtText' = ""
    /\ UNCHANGED <<genAttempts, usage, inputTokens, update, updates, consumed,
                   deliveredText>>
    /\ UNCHANGED loopVars

NextStream ==
    \/ \E tokens \in InputTokenCounts : BeginTurn(tokens)
    \/ \E stream \in Streams : BeginAttempt(stream)
    \/ ConsumeChunk
    \/ FinishStream
    \/ \E retry \in BOOLEAN : FailStream(retry)

SpecStream == Init /\ [][NextStream]_vars

----------------------------------------------------------------------------
(* getRelevantContext, lines 177-223, called once with any list of files:   *)
(* the call keeps nothing from one run to the next.                          *)

\* state of the service that a retrieval does not touch
serviceVars == <<currentConfig, apiKeys, currentKeyIndex, chatSession, envKey, rotLog>>

\* the call up to its first await: the filters, then embedText, which sends
\* the embedding request when getClient finds a client
getRelevantContextCall(files) ==
    /\ knowledgeFiles' = files
    /\ queryVector' = "none"
    /\ IF VectorizedFiles(files) = <<>>
       THEN /\ ragPc' = "returned"
            /\ context' = EmptyContext
            /\ embedRequests' = 0
            /\ embedKey' = NoKey
       ELSE /\ ragPc' = "embedding"
            /\ context' = NoContext
            /\ embedRequests' = IF hasClient(apiKeys, chatSession) THEN 1 ELSE 0
            /\ embedKey' = getClient("", apiKeys, chatSession)

\* getRelevantContext called on its own
RetrieveCall(files) ==
    /\ ragPc = "idle"
    /\ pc = "idle"
    /\ getRelevantContextCall(files)
    /\ UNCHANGED <<pc, attempt, maxAttempts, isAutoRefine, err, thrown, chunks, usage,
                   genAttempts, genRequests, recov, reconfigs, loopKeyCount, turnConfig>>
    /\ UNCHANGED <<serviceVars, streamVars, ingestVars, composeVars, appVars, memVars, utilVars>>

\* embedText resolved, with a vector or with null: scoring, sort, selection
EmbedReturn(gotVector) ==
    /\ ragPc = "embedding"
    /\ gotVector => embedRequests = 1
    /\ ragPc' = "returned"
    /\ queryVector' = IF gotVector THEN "vector" ELSE "null"
    /\ IF gotVector
       THEN \E selectedChunks \in
                {SelectChunks(SortByScore(AllChunks(VectorizedFiles(knowledgeFiles))),
                              <<>>, 0)} :
               context' = [returned |-> TRUE, chunks |-> selectedChunks,
                           fragment |-> renderFragment(selectedChunks)]
       ELSE context' = EmptyContext
    /\ UNCHANGED <<knowledgeFiles, embedKey, reconfigs, streamVars, serviceVars,
                   ingestVars, composeVars, appVars, memVars, utilVars>>
    /\ UNCHANGED turnVars

\* the files of a call: any flags and chunk lists, the i-th file named doc<i>
FileLists ==
    UNION { { [i \in 1..n |-> [name |-> DocName(i), isActive |-> f[i].isActive,
                               chunks |-> f[i].chunks]] :
                f \in [1..n -> [isActive : {"true", "false", "undefined"},
                                chunks : ChunkLists]] } : n \in 0..MaxFiles }

\* configuration of the retrieval runs: one key, one model (without a
\* configuration the service has no key)
RetrieveConfigs == {c \in Configs : c.model = FALLBACK_MODEL /\ Len(c.apiKeys) = 1}

NextRetrieve ==
    \/ \E appConfig \in RetrieveConfigs : StartChat(appConfig)
    \/ \E files \in FileLists : RetrieveCall(files)
    \/ \E gotVector \in BOOLEAN : EmbedReturn(gotVector)

SpecRetrieve == Init /\ [][NextRetrieve]_vars

----------------------------------------------------------------------------
(* A retrieval after the key index has moved: rotateKey has run since the    *)
(* last startChat, as it does in the catch block of an earlier turn.         *)

\* one active file with a chunk on each side of the threshold
EmbedFileLists ==
    { <<[name |-> DocName(1), isActive |-> "true",
         chunks |-> <<Chunk(1000, 400), Chunk(1, 401)>>]>> }

NextEmbed ==
    \/ \E appConfig \in RotateConfigs : StartChat(appConfig)
    \/ RotateKeyCall
    \/ \E files \in EmbedFileLists : RetrieveCall(files)
    \/ \E gotVector \in BOOLEAN : EmbedReturn(gotVector)

SpecEmbed == Init /\ [][NextEmbed]_vars

----------------------------------------------------------------------------
(* chunkText called directly, and vectorizeFile, lines 153-175: one embedText *)
(* call per chunk that is long enough, each awaited, then a pause of 200 ms.  *)

\* everything but the state of chunking and vectorising
notIngestVars == <<serviceVars, turnVars, reconfigs, streamVars, ragVars, composeVars,
                   appVars, memVars, utilVars>>

\* chunkText(text, size) with a positive size
ChunkTextCall(text, size) ==
    /\ vecPc = "idle"
    /\ chunked' = [text |-> text, size |-> size, chunks |-> chunkText(text, size)]
    /\ UNCHANGED <<vecPc, vecArgs, vecIndex, vectorChunks, vecSent, vecPending, vecOk,
                   vecFile>>
    /\ UNCHANGED notIngestVars

\* the for-of loop runs on from position i over the chunks that are too
\* short; it stops at the await of the next embedText call or, past the last
\* chunk, at the return
VectorizeLoop(content, list, i, vchunks) ==
    \E n \in {nextToEmbed(list, i)} :
       /\ vecIndex' = n
       /\ vectorChunks' = vchunks
       /\ IF n < Len(list)
          THEN /\ vecPc' = "embedding"
               /\ vecSent' = Append(vecSent, n)
               /\ vecPending' = vecPending + 1
               /\ vecFile' = NoFile
          ELSE /\ vecPc' = "returned"
               /\ vecFile' = [content |-> content, chunks |-> vchunks,
                              isActive |-> "true"]
               /\ UNCHANGED <<vecSent, vecPending>>

\* vectorizeFile(fileObj, apiKey) up to its first await
VectorizeCall(content, apiKey) ==
    /\ vecPc = "idle"
    /\ vecArgs' = [content |-> content, apiKey |-> apiKey]
    /\ chunked' = [text |-> content, size |-> CHUNK_SIZE_CHARS,
                   chunks |-> chunkText(content, CHUNK_SIZE_CHARS)]
    /\ VectorizeLoop(content, chunkText(content, CHUNK_SIZE_CHARS), 0, <<>>)
    /\ vecOk' = {}
    /\ UNCHANGED notIngestVars

\* embedText(chunk, apiKey) resolved with a vector or with null (no client,
\* a failed request, a response without values); the pause begins
VectorizeEmbedReturn(gotVector) ==
    /\ vecPc = "embedding"
    /\ gotVector => getClient(vecArgs.apiKey, apiKeys, chatSession) # NoClient
    /\ vecPc' = "pause"
    /\ vecPending' = vecPending - 1
    /\ vectorChunks' = IF gotVector
                       THEN Append(vectorChunks,
                                   [text |-> chunked.chunks[vecIndex + 1], vector |-> TRUE])
                       ELSE vectorChunks
    /\ vecOk' = IF gotVector THEN vecOk \cup {vecIndex} ELSE vecOk
    /\ UNCHANGED <<chunked, vecArgs, vecIndex, vecSent, vecFile>>
    /\ UNCHANGED notIngestVars

\* the 200 ms timer fired: the loop goes on with the next chunk
VectorizePauseOver ==
    /\ vecPc = "pause"
    /\ VectorizeLoop(vecArgs.content, chunked.chunks, vecIndex + 1, vectorChunks)
    /\ UNCHANGED <<chunked, vecArgs, vecOk>>
    /\ UNCHANGED notIngestVars

NextIngest ==
    \/ \E appConfig \in RetrieveConfigs : StartChat(appConfig)
    \/ \E text \in Texts, size \in 1..MaxChunkSize : ChunkTextCall(text, size)
    \/ \E content \in Contents, apiKey \in {"", KeyName(1)} : VectorizeCall(content, apiKey)
    \/ \E gotVector \in BOOLEAN : VectorizeEmbedReturn(gotVector)
    \/ VectorizePauseOver

SpecIngest == Init /\ [][NextIngest]_vars

----------------------------------------------------------------------------
(* The composition of the prompt, lines 485-567: history, context sections,  *)
(* retrieval, length mandate, attachments.  Reading the attached files is    *)
(* folded into the step that ends the composition.  The attempt loop that    *)
(* follows is reduced to attempts that end, fail and are retried.  A turn is *)
(* composed again with the arguments and the configuration of the first one. *)

\* const draftInstruction, line 561
draftInstruction ==
    "\n\n[DRAFTING PHASE]\nWrite a preliminary draft for this request. Focus on content, plot, and character actions. Ignore detailed style polish for now."

\* lines 556-567: the draft instruction is added to messageInput
withDraftInstruction(input, enableAutoRefine) ==
    IF ~enableAutoRefine THEN input
    ELSE IF input.parts > 0
    THEN [input EXCEPT !.text = Append(input.text, draftInstruction)]
    ELSE [input EXCEPT !.text = <<input.text[1] \o draftInstruction>>]

\* lines 525-570: from the result of the retrieval to the attempt loop
ComposeFinish(parts, tokens, relevantContext, a, cfgAtCall, vector, enableAutoRefine) ==
    /\ \E r \in {composeEnd(parts, tokens, relevantContext, a.text, a.files,
                              currentConfig)} :
          /\ contextParts' = r.contextParts
          /\ inputTokens' = r.inputTokens
          /\ finalPrompt' = r.finalPrompt
          /\ messageInput' = withDraftInstruction(r.messageInput, enableAutoRefine)
          /\ firstRun' = IF runs = 0
                         THEN [args |-> a, callConfig |-> cfgAtCall,
                               endConfig |-> currentConfig, queryVector |-> vector,
                               finalPrompt |-> r.finalPrompt,
                               inputTokens |-> r.inputTokens]
                         ELSE firstRun
    /\ endConfig' = currentConfig
    /\ runs' = runs + 1
    /\ EnterLoop(enableAutoRefine)

\* sendMessageStream(text, files, previousHistory, storySummary) up to the
\* await of the retrieval or, without knowledge files, up to the attempt loop
ComposeCall(a, enableAutoRefine) ==
    /\ pc \in Idle
    /\ runs < ComparedRuns
    /\ runs > 0 => (a = firstRun.args /\ currentConfig = firstRun.callConfig)
    /\ args' = a
    /\ callConfig' = currentConfig
    /\ err' = NoError
    /\ chunks' = 0
    /\ usage' = FALSE
    /\ genAttempts' = 0
    /\ genRequests' = 0
    /\ recov' = <<>>
    /\ reconfigs' = 0
    /\ turnConfig' = [model |-> currentConfig.model, apiKeys |-> apiKeys]
    /\ update' = NoUpdate
    /\ updates' = 0
    /\ consumed' = 0
    /\ deliveredText' = ""
    /\ resultStream' = <<>>
    /\ received' = <<>>
    /\ buffer' = ""
    /\ inThoughtBlock' = FALSE
    /\ fullOutputText' = ""
    /\ fullThoughtText' = ""
    /\ \E g \in {sendPrecheck(currentConfig, apiKeys)} :
       IF g # "ok" THEN
            /\ pc' = "fail"
            /\ thrown' = IF g = "notinit" THEN ErrNotInitialized ELSE ErrNoApiKey
            /\ embedRequests' = 0
            /\ sdkHistory' = <<>>
            /\ contextParts' = <<>>
            /\ finalPrompt' = ""
            /\ messageInput' = [parts |-> 0, text |-> <<>>]
            /\ inputTokens' = 0
            /\ endConfig' = NoConfig
            /\ UNCHANGED <<attempt, maxAttempts, isAutoRefine, loopKeyCount, ragVars,
                           runs, firstRun>>
       ELSE \E c \in {composeStart(a.text, a.storySummary, currentConfig)} :
            /\ sdkHistory' = sdkHistoryOf(recentHistory(a.previousHistory))
            /\ thrown' = NoError
            /\ IF Len(currentConfig.knowledgeFiles) > 0
               THEN /\ getRelevantContextCall(currentConfig.knowledgeFiles)
                    /\ pc' = "retrieve"
                    /\ contextParts' = c.contextParts
                    /\ inputTokens' = c.inputTokens
                    /\ finalPrompt' = a.text
                    /\ messageInput' = [parts |-> 0, text |-> <<>>]
                    /\ endConfig' = NoConfig
                    /\ UNCHANGED <<attempt, maxAttempts, isAutoRefine, loopKeyCount,
                                   runs, firstRun>>
               ELSE /\ ComposeFinish(c.contextParts, c.inputTokens, "", a, currentConfig,
                                     "none", enableAutoRefine)
                    /\ embedRequests' = 0
                    /\ UNCHANGED ragVars
    /\ UNCHANGED <<serviceVars, ingestVars, appVars, memVars, utilVars>>

\* getRelevantContext returned its text: the composition runs to its end
ComposeResume(enableAutoRefine) ==
    /\ pc = "retrieve"
    /\ ragPc = "returned"
    /\ ComposeFinish(contextParts, inputTokens, joinFragment(context.fragment), args,
                     callConfig, queryVector, enableAutoRefine)
    /\ ragPc' = "idle"
    /\ UNCHANGED <<knowledgeFiles, queryVector, embedKey, context>>
    /\ UNCHANGED <<args, sdkHistory, callConfig>>
    /\ UNCHANGED <<err, thrown, chunks, usage, genAttempts, genRequests, embedRequests,
                   recov, reconfigs, turnConfig>>
    /\ UNCHANGED <<resultStream, received, buffer, inThoughtBlock, fullOutputText,
                   fullThoughtText, update, updates, consumed, deliveredText>>
    /\ UNCHANGED <<serviceVars, ingestVars, appVars, memVars, utilVars>>

\* the result streams of the attempts: nothing but the end
ComposeStreams == {<<>>}

\* the user changed one setting: App.tsx calls startChat on every change of
\* appConfig
OneSettingChanged(old, new) ==
    Cardinality({f \in {"memories", "characterProfiles", "knowledgeFiles",
                        "targetWordCount"} : old[f] # new[f]}) = 1

\* startChat between turns or while the retrieval is awaited; once a turn was
\* composed, with the configurations that turn has seen
ComposeStartChat(appConfig) ==
    /\ pc \in Idle \cup {"retrieve"}
    /\ pc = "retrieve" => reconfigs = 0 /\ OneSettingChanged(currentConfig, appConfig)
    /\ runs > 0 => appConfig \in {firstRun.callConfig, firstRun.endConfig}
    /\ StartChat(appConfig)

NextCompose ==
    \/ \E appConfig \in ComposeConfigs : ComposeStartChat(appConfig)
    \/ \E a \in CallArgs, enableAutoRefine \in BOOLEAN : ComposeCall(a, enableAutoRefine)
    \/ \E gotVector \in BOOLEAN : EmbedReturn(gotVector)
    \/ \E enableAutoRefine \in BOOLEAN : ComposeResume(enableAutoRefine)
    \/ \E stream \in ComposeStreams : BeginAttempt(stream)
    \/ FinishStream
    \/ \E retry \in BOOLEAN : FailStream(retry)

SpecCompose == Init /\ [][NextCompose]_vars

----------------------------------------------------------------------------
(* The application: handleSendMessage and the handlers that replace the      *)
(* conversation while it is suspended in for await.  The stream of the       *)
(* service is what the handler sees of it: items with text, the end, or an   *)
(* error thrown.                                                             *)

notAppVars == <<streamVars, ragVars, ingestVars, composeVars, memVars, utilVars>>

\* faulty variant: the guard does not look at isLoading
canSendWhileLoading(text, attachments, loading) ==
    ~(trim(text) = "" /\ attachments = 0)

\* the guard of handleSendMessage, App.tsx line 395
canSend(text, attachments, loading) ==
    ~((trim(text) = "" /\ attachments = 0) \/ loading)

\* prev.map(msg => msg.id === modelMessageId ? {...msg, text} : msg)
setText(list, id, text) ==
    [i \in DOMAIN list |->
        IF list[i].id = id THEN [list[i] EXCEPT !.text = text] ELSE list[i]]

\* the update of the catch block, lines 470-479
setError(list, id, message) ==
    [i \in DOMAIN list |->
        IF list[i].id = id
        THEN [list[i] EXCEPT !.text = "Lỗi hệ thống: " \o message, !.isError = "true"]
        ELSE list[i]]

\* the list of sessions with the messages of one session replaced or added
withSession(list, id, msgs) ==
    [x \in DOMAIN list \cup {id} |-> IF x = id THEN msgs ELSE list[x]]

\* createNewSession, lines 274-295, but for setMessages and turnCountRef
createNewSession(appConfig) ==
    /\ currentSessionId' = clock
    /\ sessions' = withSession(sessions, clock, <<>>)
    /\ startChat(appConfig)

\* handleSendMessage past its guard, lines 397-439, with the conversation as
\* the updates queued before it leave it
sendMessage(base, text, appConfig) ==
    /\ IF currentSessionId = 0
       THEN /\ createNewSession(appConfig)
            /\ messages' = <<AppMessage(clock, "user", text, "undefined"),
                             AppMessage(clock + 1, "model", "", "undefined")>>
       ELSE /\ messages' = base \o <<AppMessage(clock, "user", text, "undefined"),
                                     AppMessage(clock + 1, "model", "", "undefined")>>
            /\ UNCHANGED <<currentSessionId, sessions, serviceVars, turnVars, reconfigs>>
    /\ clock' = clock + 2
    /\ isLoading' = TRUE
    /\ appPc' = "streaming"
    /\ appTurn' = [userId |-> clock, modelId |-> clock + 1, text |-> text]
    /\ fullText' = ""
    /\ outcome' = "none"
    /\ failure' = ""
    /\ turnCount' = IF currentSessionId = 0 THEN 1 ELSE turnCount + 1
    /\ openStreams' = openStreams + 1

HandleSendMessage(input, appConfig) ==
    /\ canSend(input.text, input.attachments, isLoading)
    /\ sendMessage(messages, input.text, appConfig)
    /\ UNCHANGED notAppVars

\* one item with text read by for await, lines 443-455
StreamYields(text) ==
    /\ appPc = "streaming"
    /\ Len(fullText) < MaxYields
    /\ fullText' = fullText \o text
    /\ messages' = setText(messages, appTurn.modelId, fullText')
    /\ UNCHANGED <<isLoading, appPc, appTurn, currentSessionId, sessions, clock, outcome,
                   failure, turnCount, openStreams>>
    /\ UNCHANGED <<serviceVars, turnVars, reconfigs, notAppVars>>

\* the stream ended: finally
StreamEnds ==
    /\ appPc = "streaming"
    /\ appPc' = "idle"
    /\ isLoading' = FALSE
    /\ outcome' = "ok"
    /\ openStreams' = openStreams - 1
    /\ UNCHANGED <<messages, appTurn, fullText, currentSessionId, sessions, clock, failure,
                   turnCount>>
    /\ UNCHANGED <<serviceVars, turnVars, reconfigs, notAppVars>>

\* the stream threw: catch, then finally
StreamThrows(message) ==
    /\ appPc = "streaming"
    /\ appPc' = "idle"
    /\ messages' = setError(messages, appTurn.modelId, message)
    /\ isLoading' = FALSE
    /\ outcome' = "failed"
    /\ failure' = message
    /\ openStreams' = openStreams - 1
    /\ UNCHANGED <<appTurn, fullText, currentSessionId, sessions, clock, turnCount>>
    /\ UNCHANGED <<serviceVars, turnVars, reconfigs, notAppVars>>

\* the button "Tạo mới", line 636
CreateNewSession(appConfig) ==
    /\ createNewSession(appConfig)
    /\ messages' = <<>>
    /\ turnCount' = 0
    /\ clock' = clock + 1
    /\ UNCHANGED <<isLoading, appPc, appTurn, fullText, outcome, failure, openStreams>>
    /\ UNCHANGED notAppVars

\* loadSession, lines 296-307
LoadSession(sessionId, appConfig) ==
    /\ sessionId \in DOMAIN sessions
    /\ currentSessionId' = sessionId
    /\ messages' = sessions[sessionId]
    /\ startChat(appConfig)
    /\ UNCHANGED <<isLoading, appPc, appTurn, fullText, sessions, clock, outcome, failure,
                   turnCount, openStreams>>
    /\ UNCHANGED notAppVars

\* deleteSession, lines 309-322, when the deletion succeeded
DeleteSession(sessionId) ==
    /\ sessionId \in DOMAIN sessions
    /\ sessions' = [x \in DOMAIN sessions \ {sessionId} |-> sessions[x]]
    /\ IF currentSessionId = sessionId
       THEN messages' = <<>> /\ currentSessionId' = 0
       ELSE UNCHANGED <<messages, currentSessionId>>
    /\ UNCHANGED <<isLoading, appPc, appTurn, fullText, clock, outcome, failure,
                   turnCount, openStreams>>
    /\ UNCHANGED <<serviceVars, turnVars, reconfigs, notAppVars>>

\* the save effect, lines 240-272, once its delay is over
SaveCurrent ==
    /\ currentSessionId # 0
    /\ Len(messages) > 0
    /\ currentSessionId \in DOMAIN sessions => sessions[currentSessionId] # messages
    /\ sessions' = withSession(sessions, currentSessionId, messages)
    /\ UNCHANGED <<messages, isLoading, appPc, appTurn, fullText, currentSessionId, clock,
                   outcome, failure, turnCount, openStreams>>
    /\ UNCHANGED <<serviceVars, turnVars, reconfigs, notAppVars>>

\* handleRetry of the message at position i (1-based), lines 484-493
HandleRetry(i, appConfig) ==
    /\ i \in DOMAIN messages
    /\ messages[i].isError = "true"
    /\ i > 1
    /\ messages[i - 1].role = "user"
    /\ \E base \in {SelectSeq(messages, LAMBDA m : m.id # messages[i].id)} :
          IF canSend(messages[i - 1].text, 0, isLoading)
          THEN sendMessage(base, messages[i - 1].text, appConfig)
          ELSE /\ messages' = base
               /\ UNCHANGED <<isLoading, appPc, appTurn, fullText, currentSessionId,
                              sessions, clock, outcome, failure, turnCount, openStreams>>
               /\ UNCHANGED <<serviceVars, turnVars, reconfigs>>
    /\ UNCHANGED notAppVars

NextApp ==
    \/ \E input \in AppInputs, appConfig \in RetrieveConfigs :
          clock <= MaxClock /\ HandleSendMessage(input, appConfig)
    \/ \E text \in {"a"} : StreamYields(text)
    \/ StreamEnds
    \/ \E message \in AppErrors : StreamThrows(message)
    \/ \E appConfig \in RetrieveConfigs : clock <= MaxClock /\ CreateNewSession(appConfig)
    \/ \E sessionId \in DOMAIN sessions, appConfig \in RetrieveConfigs :
          LoadSession(sessionId, appConfig)
    \/ \E sessionId \in DOMAIN sessions : DeleteSession(sessionId)
    \/ SaveCurrent
    \/ \E i \in DOMAIN messages, appConfig \in RetrieveConfigs :
          clock <= MaxClock /\ HandleRetry(i, appConfig)

SpecApp == Init /\ [][NextApp]_vars

----------------------------------------------------------------------------
(* The ways into handleSendMessage: the send button, retry, edit and         *)
(* resubmit, the quick actions.                                              *)

\* handleEditSubmit of the message at position i (1-based), lines 520-531
HandleEditSubmit(i, editText, appConfig) ==
    /\ trim(editText) # ""
    /\ i \in DOMAIN messages
    /\ messages[i].role = "user"
    /\ \E base \in {SubSeq(messages, 1, i - 1)} :
          IF canSend(editText, 0, isLoading)
          THEN sendMessage(base, editText, appConfig)
          ELSE /\ messages' = base
               /\ UNCHANGED <<isLoading, appPc, appTurn, fullText, currentSessionId,
                              sessions, clock, outcome, failure, turnCount, openStreams>>
               /\ UNCHANGED <<serviceVars, turnVars, reconfigs>>
    /\ UNCHANGED notAppVars

\* the prompt of a quick action, lines 538-544, its letters written without
\* their diacritics
quickPrompt(action, input) ==
    CASE action = "expand" ->
            "Mo rong y nay thanh mot canh day du voi cac chi tiet cam giac:\n\n" \o input
      [] action = "describe" ->
            "Viet mot doan mo ta song dong, giau khong khi:\n\n" \o input
      [] action = "dialogue" ->
            "Viet mot doan hoi thoai thuc te dua tren:\n\n" \o input
      [] action = "rewrite" ->
            "Viet lai doan nay van hoc hon va an tuong hon:\n\n" \o input
      [] OTHER -> ""

\* handleQuickAction with the text of the input box, lines 533-547
HandleQuickAction(action, input, appConfig) ==
    /\ trim(input) # ""
    /\ IF canSend(quickPrompt(action, input), 0, isLoading)
       THEN sendMessage(messages, quickPrompt(action, input), appConfig)
       ELSE /\ UNCHANGED appVars
            /\ UNCHANGED <<serviceVars, turnVars, reconfigs>>
    /\ UNCHANGED notAppVars

NextTurns ==
    \/ \E input \in AppInputs, appConfig \in RetrieveConfigs :
          clock <= MaxClock /\ HandleSendMessage(input, appConfig)
    \/ \E i \in DOMAIN messages, appConfig \in RetrieveConfigs :
          clock <= MaxClock /\ HandleRetry(i, appConfig)
    \/ \E i \in DOMAIN messages, appConfig \in RetrieveConfigs :
          clock <= MaxClock /\ HandleEditSubmit(i, "edited", appConfig)
    \/ \E action \in {"expand", "rewrite"}, appConfig \in RetrieveConfigs :
          clock <= MaxClock /\ HandleQuickAction(action, "hi", appConfig)
    \/ \E appConfig \in RetrieveConfigs : clock <= MaxClock /\ CreateNewSession(appConfig)
    \/ \E text \in {"a"} : StreamYields(text)
    \/ StreamEnds
    \/ \E message \in AppErrors : StreamThrows(message)

SpecTurns == Init /\ [][NextTurns]_vars

----------------------------------------------------------------------------
(* Automatic memory extraction: the effect on `messages`, lines 363-391.     *)

MEMORY_UPDATE_INTERVAL == 4

MaxMemoryClock == 7   \* last value of Date.now() at which a message is sent (SpecMemory)

ExtractedFacts == {<<>>, <<"fact">>}

\* the condition of runExtraction, line 366
extractionDue(msgs, turns) ==
    Len(msgs) > 0 /\ turns > 0 /\ turns % MEMORY_UPDATE_INTERVAL = 0

\* the effect runs after a render in which `messages` changed; up to the
\* await of extractMemories, lines 364-370
MemoryEffect ==
    /\ messages # seenMessages
    /\ seenMessages' = messages
    /\ IF extractionDue(messages, turnCount)
       THEN /\ isSummarizing' = TRUE
            /\ extracting' = extracting + 1
            /\ extractLog' = Append(extractLog, turnCount)
       ELSE UNCHANGED <<isSummarizing, extracting, extractLog>>
    /\ UNCHANGED appMemories
    /\ UNCHANGED <<serviceVars, turnVars, reconfigs, streamVars, ragVars, ingestVars,
                   composeVars, appVars, utilVars>>

\* extractMemories resolved with newFacts (it catches its own errors and
\* resolves with []): lines 371-387
ExtractionReturns(newFacts) ==
    /\ extracting > 0
    /\ extracting' = extracting - 1
    /\ appMemories' = IF Len(newFacts) > 0 THEN appMemories \o newFacts ELSE appMemories
    /\ isSummarizing' = FALSE
    /\ UNCHANGED <<seenMessages, extractLog>>
    /\ UNCHANGED <<serviceVars, turnVars, reconfigs, streamVars, ragVars, ingestVars,
                   composeVars, appVars, utilVars>>

NextMemory ==
    \/ \E appConfig \in RetrieveConfigs :
          /\ clock <= MaxMemoryClock
          /\ HandleSendMessage([text |-> "hi", attachments |-> 0], appConfig)
    \/ \E text \in {"a"} : StreamYields(text)
    \/ StreamEnds
    \/ MemoryEffect
    \/ \E newFacts \in ExtractedFacts : ExtractionReturns(newFacts)

SpecMemory == Init /\ [][NextMemory]_vars

----------------------------------------------------------------------------
(* Vector arithmetic: dotProduct, magnitude, cosineSimilarity.               *)
(* A vector argument is a record: missing (null or undefined) or not, and    *)
(* its numbers. Math.sqrt is kept symbolic: a magnitude is the number its    *)
(* square root is taken of, and a product of two magnitudes the product of   *)
(* those numbers; Math.sqrt(x) is 0 exactly when x is 0.                      *)

MaxDim == 2                 \* longest vector
VectorEntries == {-1, 0, 2}

Vectors ==
    {NoVector} \cup {Vector(v) : v \in UNION {[1..n -> VectorEntries] : n \in 0..MaxDim}}

RECURSIVE dotProductFrom(_, _, _)
dotProductFrom(a, b, i) ==
    IF i > Len(a) THEN 0 ELSE a[i] * b[i] + dotProductFrom(a, b, i + 1)

dotProduct(a, b) == dotProductFrom(a, b, 1)

\* the number under Math.sqrt
magnitude(a) == dotProductFrom(a, a, 1)

cosineSimilarityUnguarded(a, b) ==
    IF a.missing \/ b.missing \/ Len(a.values) # Len(b.values)
    THEN Returned(0)
    ELSE Quotient(dotProduct(a.values, b.values),
                  magnitude(a.values) * magnitude(b.values))

cosineSimilarity(a, b) ==
    IF a.missing \/ b.missing \/ Len(a.values) # Len(b.values)
    THEN Returned(0)
    ELSE LET magA == magnitude(a.values)
             magB == magnitude(b.values)
         IN  IF magA = 0 \/ magB = 0
             THEN Returned(0)
             ELSE Quotient(dotProduct(a.values, b.values), magA * magB)

CosineCall(a, b) ==
    /\ cosArgs' = [a |-> a, b |-> b]
    /\ cosResult' = cosineSimilarity(a, b)
    /\ UNCHANGED <<serviceVars, turnVars, reconfigs, streamVars, ragVars, ingestVars,
                   composeVars, appVars, memVars, stopVars, uploadVars, speechVars>>

NextCosine == \E a \in Vectors, b \in Vectors : CosineCall(a, b)

SpecCosine == Init /\ [][NextCosine]_vars

----------------------------------------------------------------------------
(* The stop sequences of the settings panel: addStopSequence and             *)
(* removeStopSequence.                                                       *)

MaxStopSequences == 5

StopInputs == {" ", "a", " a", "b", "c", "d", "e", "f"}
StopKeys == {"Enter", "a"}

\* Array.prototype.includes
includes(list, x) == \E i \in DOMAIN list : list[i] = x

\* Array.prototype.filter(s => s !== seq)
RECURSIVE without(_, _)
without(list, seq) ==
    IF list = <<>> THEN <<>>
    ELSE IF Head(list) = seq THEN without(Tail(list), seq)
    ELSE <<Head(list)>> \o without(Tail(list), seq)

\* what addStopSequence writes with a sequence that is already in the list
addDuplicate(current, text) ==
    IF Len(current) < MaxStopSequences THEN Append(current, trim(text)) ELSE current

\* the list addStopSequence leaves, once the key is Enter and the text is not blank
addToList(current, text) ==
    IF Len(current) < MaxStopSequences /\ ~includes(current, trim(text))
    THEN Append(current, trim(text))
    ELSE current

\* onChange of the input box
TypeStopSequence(text) ==
    /\ newStopSequence' = text
    /\ UNCHANGED <<stopSequences, stopOp>>
    /\ UNCHANGED <<serviceVars, turnVars, reconfigs, streamVars, ragVars, ingestVars,
                   composeVars, appVars, memVars, mathVars, uploadVars,
                   speechVars>>

\* onKeyDown of the input box
addStopSequence(key) ==
    /\ stopOp' = [op |-> "add", arg |-> newStopSequence, key |-> key]
    /\ IF key = "Enter" /\ trim(newStopSequence) # ""
       THEN /\ stopSequences' = addToList(stopSequences, newStopSequence)
            /\ newStopSequence' = IF stopSequences' # stopSequences THEN ""
                                  ELSE newStopSequence
       ELSE UNCHANGED <<stopSequences, newStopSequence>>
    /\ UNCHANGED <<serviceVars, turnVars, reconfigs, streamVars, ragVars, ingestVars,
                   composeVars, appVars, memVars, mathVars, uploadVars,
                   speechVars>>

\* the X button of an entry of the list
removeStopSequence(seq) ==
    /\ includes(stopSequences, seq)
    /\ stopOp' = [op |-> "remove", arg |-> seq, key |-> ""]
    /\ stopSequences' = without(stopSequences, seq)
    /\ UNCHANGED newStopSequence
    /\ UNCHANGED <<serviceVars, turnVars, reconfigs, streamVars, ragVars, ingestVars,
                   composeVars, appVars, memVars, mathVars, uploadVars,
                   speechVars>>

NextStop ==
    \/ \E text \in StopInputs : TypeStopSequence(text)
    \/ \E key \in StopKeys : addStopSequence(key)
    \/ \E seq \in StopInputs : removeStopSequence(seq)

SpecStop == Init /\ [][NextStop]_vars

----------------------------------------------------------------------------
(* The knowledge upload of the settings panel: handleKnowledgeUpload. A      *)
(* file of the batch is too large or not, and a PDF or not; what its         *)
(* extraction and its vectorisation give is chosen when they return. The     *)
(* alerts of the handler are not state.                                      *)

MaxBatch == 2      \* most files in one batch
MaxUploads == 2    \* batches handed to the handler in one run

UploadFile(large, pdf) == [large |-> large, pdf |-> pdf]
Batches ==
    UNION {[1..n -> {UploadFile(l, p) : l \in BOOLEAN, p \in {FALSE}}
                    \cup {UploadFile(FALSE, TRUE)}] : n \in 1..MaxBatch}

\* the id vectorizeFile gives the file at position i of batch b
fileId(b, i) == [batch |-> b, index |-> i]

\* a file that is too large ends the loop
firstFittingOrEnd(files, i) ==
    IF i > Len(files) THEN i
    ELSE IF files[i].large THEN Len(files) + 1
    ELSE i

\* `continue` for a file that is too large, lines 116-119: the position of the
\* first file from i on that is not too large (one past the end if none)
RECURSIVE firstFitting(_, _)
firstFitting(files, i) ==
    IF i > Len(files) THEN i
    ELSE IF files[i].large THEN firstFitting(files, i + 1)
    ELSE i

\* the loop from position i up to its next await, or to the end of the
\* handler (lines 144-149)
continueFrom(files, i, outs, nf) ==
    \E j \in {firstFitting(files, i)} :
       /\ upOutcomes' = [k \in DOMAIN outs |->
                            IF k \in i..(j - 1) /\ files[k].large THEN "too large"
                            ELSE outs[k]]
       /\ newFiles' = nf
       /\ IF j > Len(files)
          THEN /\ panelFiles' = panelFiles \o nf
               /\ isProcessing' = FALSE
               /\ upPc' = "done"
               /\ upIndex' = 0
          ELSE /\ isProcessing' = TRUE
               /\ upPc' = "extract"
               /\ upIndex' = j
               /\ UNCHANGED panelFiles

\* onChange of the file input with a batch; apiKey is config.apiKeys[0] or
\* process.env.API_KEY
HandleKnowledgeUpload(files, apiKey) ==
    /\ upPc \in {"idle", "done"}
    /\ uploads < MaxUploads
    /\ Len(files) > 0
    /\ uploads' = uploads + 1
    /\ upFiles' = files
    /\ IF apiKey = ""
       THEN /\ upOutcomes' = [k \in DOMAIN files |-> "no key"]
            /\ upPc' = "idle"
            /\ UNCHANGED <<upIndex, newFiles, isProcessing, panelFiles>>
       ELSE continueFrom(files, 1, [k \in DOMAIN files |-> "pending"], <<>>)
    /\ UNCHANGED <<serviceVars, turnVars, reconfigs, streamVars, ragVars, ingestVars,
                   composeVars, appVars, memVars, mathVars, stopVars,
                   speechVars>>

\* extractTextFromPdf or file.text() returned: text, no text, or an error
\* (lines 122-127)
ExtractReturns(result) ==
    /\ upPc = "extract"
    /\ IF result = "text"
       THEN /\ upPc' = "vectorize"
            /\ UNCHANGED <<upIndex, newFiles, isProcessing, panelFiles, upOutcomes>>
       ELSE IF result = "throws" /\ upFiles[upIndex].pdf
       THEN continueFrom(upFiles, upIndex + 1,
                         [upOutcomes EXCEPT ![upIndex] = "extraction failed"], newFiles)
       ELSE continueFrom(upFiles, upIndex + 1,
                         [upOutcomes EXCEPT ![upIndex] = "no text"], newFiles)
    /\ UNCHANGED <<upFiles, uploads>>
    /\ UNCHANGED <<serviceVars, turnVars, reconfigs, streamVars, ragVars, ingestVars,
                   composeVars, appVars, memVars, mathVars, stopVars,
                   speechVars>>

\* geminiService.vectorizeFile returned a file or threw (lines 129-142)
VectorizeReturns(ok) ==
    /\ upPc = "vectorize"
    /\ IF ok
       THEN continueFrom(upFiles, upIndex + 1, [upOutcomes EXCEPT ![upIndex] = "ok"],
                         Append(newFiles, fileId(uploads, upIndex)))
       ELSE continueFrom(upFiles, upIndex + 1,
                         [upOutcomes EXCEPT ![upIndex] = "vectorization failed"], newFiles)
    /\ UNCHANGED <<upFiles, uploads>>
    /\ UNCHANGED <<serviceVars, turnVars, reconfigs, streamVars, ragVars, ingestVars,
                   composeVars, appVars, memVars, mathVars, stopVars,
                   speechVars>>

\* the delete button of a file of the list, lines 516-520
RemoveKnowledgeFile(i) ==
    /\ i \in DOMAIN panelFiles
    /\ panelFiles' = SubSeq(panelFiles, 1, i - 1) \o SubSeq(panelFiles, i + 1, Len(panelFiles))
    /\ UNCHANGED <<upFiles, upPc, upIndex, newFiles, isProcessing, upOutcomes, uploads>>
    /\ UNCHANGED <<serviceVars, turnVars, reconfigs, streamVars, ragVars, ingestVars,
                   composeVars, appVars, memVars, mathVars, stopVars,
                   speechVars>>

NextUpload ==
    \/ \E files \in Batches, apiKey \in {"", "key1"} : HandleKnowledgeUpload(files, apiKey)
    \/ \E result \in {"text", "empty", "throws"} : ExtractReturns(result)
    \/ \E ok \in BOOLEAN : VectorizeReturns(ok)
    \/ \E i \in DOMAIN panelFiles : RemoveKnowledgeFile(i)

SpecUpload == Init /\ [][NextUpload]_vars

----------------------------------------------------------------------------
(* Text to speech: generateSpeech with its cache, and the continuation of    *)
(* handleSpeak, App.tsx lines 106-117, which hands the ArrayBuffer it got to *)
(* decodeAudioData. decodeAudioData detaches the ArrayBuffer it is given     *)
(* (its length becomes 0) and rejects one that is detached already.          *)
(* ttsCache is a function from cache keys to positions in audioHeap: the     *)
(* Map holds the object generateSpeech returns, not a copy of it.            *)

MaxSpeechCalls == 3     \* most calls of generateSpeech

SpeechTexts == {"x", "y"}
SpeechVoices == {"Kore"}
SpeechResults == {"b1", "b2", "empty", "error"}

\* the template `${voiceName}:${text}`
cacheKey(text, voiceName) == voiceName \o ":" \o text

\* the bytes of an ArrayBuffer of the heap as a reader finds them
bytesOf(heap, id) == IF heap[id].detached THEN "" ELSE heap[id].bytes

\* Map.prototype.set
mapSet(map, key, value) ==
    [k \in DOMAIN map \cup {key} |-> IF k = key THEN value ELSE map[k]]

\* a return of generateSpeech waits for the continuation of its caller
awaitingCaller ==
    /\ speechLog # <<>>
    /\ ~speechLog[Len(speechLog)].handed

\* generateSpeech up to its await, lines 108-118
GenerateSpeech(text, voiceName) ==
    /\ ~awaitingCaller
    /\ Len(speechLog) + Len(speechPending) < MaxSpeechCalls
    /\ IF cacheKey(text, voiceName) \in DOMAIN ttsCache
       THEN /\ speechLog' = Append(speechLog,
                 [text |-> text, voice |-> voiceName, outcome |-> "cached",
                  buffer |-> ttsCache[cacheKey(text, voiceName)],
                  bytes |-> bytesOf(audioHeap, ttsCache[cacheKey(text, voiceName)]),
                  after |-> Len(speechLog), handed |-> FALSE])
            /\ UNCHANGED speechPending
       ELSE IF getClient("", apiKeys, chatSession) = NoClient
       THEN /\ speechLog' = Append(speechLog,
                 [text |-> text, voice |-> voiceName, outcome |-> "no key",
                  buffer |-> 0, bytes |-> "", after |-> Len(speechLog), handed |-> TRUE])
            /\ UNCHANGED speechPending
       ELSE /\ speechPending' = Append(speechPending,
                 [text |-> text, voice |-> voiceName, after |-> Len(speechLog),
                  client |-> getClient("", apiKeys, chatSession)])
            /\ UNCHANGED speechLog
    /\ UNCHANGED <<ttsCache, audioHeap>>
    /\ UNCHANGED <<serviceVars, turnVars, reconfigs, streamVars, ragVars, ingestVars,
                   composeVars, appVars, memVars, mathVars, stopVars, uploadVars>>

\* the backend answered the call at position i of the calls that wait: with
\* audio, without audio, or with an error (lines 119-150)
SpeechReturns(i, result) ==
    /\ ~awaitingCaller
    /\ i \in DOMAIN speechPending
    /\ speechPending' = SubSeq(speechPending, 1, i - 1)
                           \o SubSeq(speechPending, i + 1, Len(speechPending))
    /\ IF result \in {"empty", "error"}
       THEN /\ speechLog' = Append(speechLog,
                 [text |-> speechPending[i].text, voice |-> speechPending[i].voice,
                  outcome |-> "null", buffer |-> 0, bytes |-> "",
                  after |-> speechPending[i].after, handed |-> TRUE])
            /\ UNCHANGED <<ttsCache, audioHeap>>
       ELSE /\ audioHeap' = Append(audioHeap, [bytes |-> result, detached |-> FALSE])
            /\ ttsCache' = mapSet(ttsCache,
                                  cacheKey(speechPending[i].text, speechPending[i].voice),
                                  Len(audioHeap) + 1)
            /\ speechLog' = Append(speechLog,
                 [text |-> speechPending[i].text, voice |-> speechPending[i].voice,
                  outcome |-> "buffer", buffer |-> Len(audioHeap) + 1, bytes |-> result,
                  after |-> speechPending[i].after, handed |-> FALSE])
    /\ UNCHANGED <<serviceVars, turnVars, reconfigs, streamVars, ragVars, ingestVars,
                   composeVars, appVars, memVars, mathVars, stopVars, uploadVars>>

\* handleSpeak goes on with the ArrayBuffer it got: decodeAudioData(audioBuffer),
\* App.tsx line 117
DecodeAudioData ==
    /\ awaitingCaller
    /\ speechLog' = [speechLog EXCEPT ![Len(speechLog)].handed = TRUE]
    /\ audioHeap' = [audioHeap EXCEPT ![speechLog[Len(speechLog)].buffer].detached = TRUE]
    /\ UNCHANGED <<ttsCache, speechPending>>
    /\ UNCHANGED <<serviceVars, turnVars, reconfigs, streamVars, ragVars, ingestVars,
                   composeVars, appVars, memVars, mathVars, stopVars, uploadVars>>

\* configurations with one key
SpeechConfigs == {c \in Configs : c.model = FALLBACK_MODEL /\ c.apiKeys = <<KeyName(1)>>}

NextSpeech ==
    \/ \E appConfig \in SpeechConfigs : StartChat(appConfig)
    \/ \E text \in SpeechTexts, voiceName \in SpeechVoices : GenerateSpeech(text, voiceName)
    \/ \E i \in DOMAIN speechPending, result \in SpeechResults : SpeechReturns(i, result)
    \/ DecodeAudioData

SpecSpeech == Init /\ [][NextSpeech]_vars

----------------------------------------------------------------------------
(* The service with and without credentials: startChat with a key and with   *)
(* none, a turn (which builds this.ai), the query embedding of a retrieval   *)
(* and generateSpeech.                                                       *)

\* configurations with one key or with none
KeyOrNoneConfigs ==
    {c \in Configs : c.model = FALLBACK_MODEL /\ c.apiKeys \in {<<>>, <<KeyName(1)>>}}

NextNoKey ==
    \/ \E appConfig \in KeyOrNoneConfigs : StartChat(appConfig)
    \/ Send(FALSE, FALSE)
    \/ LoopTop
    \/ OpenOk
    \/ StreamEnd
    \/ \E files \in EmbedFileLists : RetrieveCall(files)
    \/ \E gotVector \in BOOLEAN : EmbedReturn(gotVector)
    \/ \E text \in {"x"}, voiceName \in SpeechVoices : GenerateSpeech(text, voiceName)
    \/ \E i \in DOMAIN speechPending, result \in {"b1", "error"} : SpeechReturns(i, result)
    \/ DecodeAudioData

SpecNoKey == Init /\ [][NextNoKey]_vars

----------------------------------------------------------------------------
(* Steps, as seen from outside *)

StartChatStep == \E appConfig \in Configs : StartChat(appConfig)

SendStep == \E hasKnowledge \in BOOLEAN, enableAutoRefine \in BOOLEAN :
                Send(hasKnowledge, enableAutoRefine)

\* the catch block ran in this step; err' is the error it caught
CatchStep ==
    \/ pc \in {"draft", "open", "stream"} /\ pc' \in {"loop", "fail"}
    \/ pc = "loop" /\ pc' = "fail"

\* a failed turn is over: only a new call of the caller moves the service on
TurnOverAfterFail == pc = "fail" => (SendStep \/ StartChatStep)

Last(q) == q[Len(q)]

NumFallbacks == Cardinality({i \in DOMAIN recov : recov[i].ev = "fallback"})

----------------------------------------------------------------------------
(* Claims *)

C2_RotateKeySequence ==
    Len(apiKeys) >= 1 =>
        /\ \A i \in DOMAIN rotLog :
              rotLog[i] = IF i <= Len(apiKeys) - 1
                          THEN [ok |-> TRUE, index |-> i]
                          ELSE [ok |-> FALSE, index |-> Len(apiKeys) - 1]
        /\ currentKeyIndex = IF Len(rotLog) <= Len(apiKeys) - 1
                             THEN Len(rotLog) ELSE Len(apiKeys) - 1

C2_Witness ==
    /\ Len(apiKeys) >= 3
    /\ Len(rotLog) > Len(apiKeys)
    /\ rotLog[Len(apiKeys) - 1].ok
    /\ ~rotLog[Len(apiKeys)].ok

\* C3: whenever the key list is non-empty the credential index is a position
\* of it: 0 <= currentKeyIndex < apiKeys.length.
C3_IndexInRange ==
    Len(apiKeys) > 0 => (0 <= currentKeyIndex /\ currentKeyIndex < Len(apiKeys))

\* a rotation moved the index to 1, then startChat set a one-key list
C3_Witness ==
    /\ reconfigs = 1
    /\ Len(recov) >= 1
    /\ Last(recov).ev = "rotate"
    /\ Len(apiKeys) = 1
    /\ pc \in AwaitPoints

\* C4: a step that is not a startChat never decreases the credential index,
\* and starting a turn leaves it where the previous turn ended.
C4_IndexMonotone ==
    [][ /\ ~StartChatStep => currentKeyIndex' >= currentKeyIndex
        /\ SendStep => currentKeyIndex' = currentKeyIndex ]_vars

\* a turn started on the key the previous turn rotated to
C4_Witness ==
    /\ currentKeyIndex > 0
    /\ recov = <<>>
    /\ reconfigs = 0
    /\ genAttempts = 1
    /\ pc = "open"

\* C5: a recovery by model fallback leaves the credential index and the key
\* list unchanged; a recovery by key rotation leaves the selected model unchanged.
C5_IndependentAxes ==
    [][ (CatchStep /\ Len(recov') = Len(recov) + 1) =>
           /\ Last(recov').ev = "fallback" =>
                 /\ currentKeyIndex' = currentKeyIndex
                 /\ apiKeys' = apiKeys
                 /\ currentConfig'.model = FALLBACK_MODEL
           /\ Last(recov').ev = "rotate" =>
                 /\ currentConfig' = currentConfig
                 /\ currentKeyIndex' = currentKeyIndex + 1 ]_vars

C5_Witness ==
    /\ Len(recov) = 2
    /\ recov[1].ev = "fallback"
    /\ recov[2].ev = "rotate"
    /\ pc = "loop"

\* C6: a caught error that is a safety error ends the turn in that step with
\* the user-facing safety error, also when it is a quota error as well: no
\* recovery is recorded, no request is sent, index and configuration stay.
C6_SafetyEndsTurn ==
    [][ /\ (CatchStep /\ isSafetyError(err')) =>
              /\ pc' = "fail"
              /\ thrown' = SafetyError
              /\ recov' = recov
              /\ genRequests' = genRequests
              /\ currentKeyIndex' = currentKeyIndex
              /\ currentConfig' = currentConfig
        /\ TurnOverAfterFail ]_vars

C6_Witness ==
    /\ pc = "fail"
    /\ thrown = SafetyError
    /\ isSafetyError(err)
    /\ isQuotaError(err)

\* C7: a caught error that is neither a safety nor a quota error ends the turn
\* in that step by re-throwing it: no recovery, no request, index and
\* configuration unchanged.
C7_OtherErrorRethrown ==
    [][ /\ (CatchStep /\ ~isSafetyError(err') /\ ~isQuotaError(err')) =>
              /\ pc' = "fail"
              /\ thrown' = err'
              /\ recov' = recov
              /\ genRequests' = genRequests
              /\ currentKeyIndex' = currentKeyIndex
              /\ currentConfig' = currentConfig
        /\ TurnOverAfterFail ]_vars

C7_Witness ==
    /\ pc = "fail"
    /\ err \in BackendErrors
    /\ thrown = err
    /\ ~isSafetyError(err)
    /\ ~isQuotaError(err)
    /\ genRequests >= 1

\* C8: a quota error caught on a non-pro model while the index is at the last
\* key ends the turn in that step by throwing that error; the index stays and
\* no request follows.
C8_ExhaustedThrowsOriginal ==
    [][ /\ ( /\ CatchStep
             /\ isQuotaError(err') /\ ~isSafetyError(err')
             /\ ~Includes(currentConfig.model, "pro")
             /\ currentKeyIndex = Len(apiKeys) - 1 ) =>
              /\ pc' = "fail"
              /\ thrown' = err'
              /\ genRequests' = genRequests
              /\ currentKeyIndex' = currentKeyIndex
              /\ currentConfig' = currentConfig
        /\ TurnOverAfterFail ]_vars

C8_Witness ==
    /\ pc = "fail"
    /\ isQuotaError(thrown)
    /\ Len(recov) >= 2
    /\ Last(recov).ev = "exhausted"
    /\ Len(apiKeys) = 2
    /\ currentKeyIndex = 1

\* C9: sendMessageStream called while the key list is empty fails in the call
\* itself with the configuration error, before any composition: no embedding
\* request, no session, no generation request.
C9_NoKeysFailsFast ==
    [][ /\ (SendStep /\ Len(apiKeys) = 0) =>
              /\ pc' = "fail"
              /\ thrown' = IF currentConfig = NoConfig
                           THEN ErrNotInitialized ELSE ErrNoApiKey
              /\ embedRequests' = 0
              /\ genRequests' = 0
              /\ genAttempts' = 0
              /\ chatSession' = chatSession
        /\ TurnOverAfterFail ]_vars

C9_Witness ==
    /\ pc = "fail"
    /\ thrown = ErrNoApiKey
    /\ currentConfig # NoConfig
    /\ envKey = ""
    /\ Len(apiKeys) = 0
    /\ embedRequests = 0
    /\ genRequests = 0

\* C10 as stated: the attempts of a turn never exceed max(1, number of keys).
C10_AttemptsWithinKeyCount ==
    genAttempts <= Max(1, loopKeyCount)

\* C10, amended: the attempts of a turn never exceed max(1, number of keys on
\* entering the loop) plus the number of model fallbacks of the turn, and a turn
\* whose configuration is not replaced while it runs falls back at most once.
C10_AttemptsWithinKeyCountPlusFallbacks ==
    /\ genAttempts <= Max(1, loopKeyCount) + NumFallbacks
    /\ reconfigs = 0 => NumFallbacks <= 1

C10_Witness ==
    /\ reconfigs = 0
    /\ loopKeyCount = 2
    /\ genAttempts = 3
    /\ NumFallbacks = 1

\* C11 as stated: under SpecFair every turn in flight eventually reaches DONE,
\* the final usage record emitted, or FAIL, an error thrown.
C11_TurnReachesDoneOrFail ==
    (pc \notin Idle) ~> ((pc = "done" /\ usage) \/ pc = "fail")

----------------------------------------------------------------------------
(* What a stream means: the text outside and inside <thought>...</thought>  *)
(* blocks of the whole stream text, whatever the cuts between its chunks.    *)

RECURSIVE ConcatText(_)
ConcatText(q) == IF q = <<>> THEN "" ELSE Head(q).text \o ConcatText(Tail(q))

IsPrefix(a, b) == Len(a) <= Len(b) /\ SubSeq(b, 1, Len(a)) = a

\* the block that opens at the first "<thought>" of s runs to the first
\* "</thought>" after it, or to the end of s when it is never closed
BlockStart(s) == IndexOf(s, "<thought>")
BlockEnd(s) ==
    LET body == SliceFrom(s, BlockStart(s) + 9)
        j == IndexOf(body, "</thought>")
    IN  IF j = -1 THEN Len(s) ELSE BlockStart(s) + 9 + j + 10
BlockBody(s) ==
    LET body == SliceFrom(s, BlockStart(s) + 9)
        j == IndexOf(body, "</thought>")
    IN  IF j = -1 THEN body ELSE SliceTo(body, j)

RECURSIVE OutsideThought(_)
OutsideThought(s) ==
    IF BlockStart(s) = -1 THEN s
    ELSE SliceTo(s, BlockStart(s)) \o OutsideThought(SliceFrom(s, BlockEnd(s)))

RECURSIVE InsideThought(_)
InsideThought(s) ==
    IF BlockStart(s) = -1 THEN ""
    ELSE BlockBody(s) \o InsideThought(SliceFrom(s, BlockEnd(s)))

\* no occurrence of tag in the text of q lies across a cut between two chunks
TagUncut(q, tag) ==
    LET t == ConcatText(q) IN
    \A k \in 1..(Len(q) - 1) :
        LET cut == Len(ConcatText(SubSeq(q, 1, k))) IN
        \A i \in 0..(Len(t) - Len(tag)) :
            SubSeq(t, i + 1, i + Len(tag)) = tag => ~(i < cut /\ cut < i + Len(tag))

WholeTags(q) == TagUncut(q, "<thought>") /\ TagUncut(q, "</thought>")

\* a chunk was read in this step
ConsumeStep == pc = "stream" /\ Len(received') = Len(received) + 1

\* a text/thought update was yielded in this step
YieldStep == updates' = updates + 1 /\ update'.usageMetadata = NoUsage

\* C12 as stated: the visible text and the thought text an attempt collected
\* from a completed stream are those of the whole stream text, wherever the
\* stream was cut into chunks, so that no part of a tag is in either.
C12_SplitTagsRecognised ==
    (pc = "done" /\ usage) =>
        /\ fullOutputText = OutsideThought(ConcatText(received))
        /\ fullThoughtText = InsideThought(ConcatText(received))

\* C13 as stated: the thought of an update yielded in a turn has the thought of
\* the update yielded before it in the same turn as a prefix, also when the
\* two are separated by a failed read and a retry.
C13_ThoughtNeverShrinks ==
    [][ (YieldStep /\ updates > 0) => IsPrefix(update.thought, update'.thought) ]_vars

\* C14: while no tag is cut by a chunk boundary, reading a chunk yields as
\* text exactly what the chunk adds to the text outside the thought blocks of
\* the stream so far (nothing is yielded when it adds nothing and carries no
\* grounding), and as thought the whole text inside the blocks so far; the
\* attempt's collected output and thought are those of the stream so far.
C14_DeltaTextAggregatedThought ==
    [][ (ConsumeStep /\ WholeTags(received')) =>
           \E before \in {ConcatText(received)}, after \in {ConcatText(received')} :
              /\ fullOutputText' = OutsideThought(after)
              /\ fullThoughtText' = InsideThought(after)
              /\ fullOutputText = OutsideThought(before)
              /\ IF YieldStep
                 THEN /\ OutsideThought(after) = OutsideThought(before) \o update'.text
                      /\ update'.thought = InsideThought(after)
                 ELSE /\ OutsideThought(after) = OutsideThought(before)
                      /\ InsideThought(after) = InsideThought(before)
                      /\ UNCHANGED <<update, updates>> ]_vars

\* a chunk with both tags whole and text on both sides was read after another
C14_Witness ==
    /\ pc = "stream"
    /\ Len(received) = 3
    /\ WholeTags(received)
    /\ received[1].text = "a<thought>b"
    /\ received[2].text = "c</thought>d"
    /\ received[3].text = "a<thought>b"
    /\ fullOutputText = "ada"
    /\ fullThoughtText = "bcb"
    /\ update.text = "a"

\* C15 as stated: a turn that ended without throwing has emitted the usage
\* record; the attempt loop is never left through its condition.
C15_NormalEndHasUsageRecord ==
    pc = "done" => usage

\* the attempt loop sends the first request of a retry in this step
RetryRequestStep ==
    /\ pc = "loop"
    /\ Len(recov) > 0
    /\ genRequests' = genRequests + 1

\* C16 as stated: the request that follows a rotation or a fallback goes out on
\* a session built for the credential at the current index and for the model
\* now selected: after a rotation not on the key of the failed request, after
\* a fallback not on a pro model.
C16_RetryOnFreshSession ==
    [][ RetryRequestStep =>
           /\ Len(apiKeys) > 0
           /\ chatSession' = [key |-> apiKeys[currentKeyIndex + 1],
                              model |-> actualModel(currentConfig.model)]
           /\ Last(recov).ev = "rotate" => chatSession'.key # chatSession.key
           /\ Last(recov).ev = "fallback" => ~Includes(chatSession'.model, "pro") ]_vars

\* the attempt in flight runs on chatSession
AttemptRunning == pc \in {"draft", "open", "stream"}

\* C17 as stated: every attempt of a turn runs with the settings in force when
\* the turn started, whatever startChat installs meanwhile: its session is
\* bound to a key of the turn's key list and to the turn's model (or to the
\* fast model the turn fell back to).
C17_TurnReadsConfigOfItsStart ==
    AttemptRunning =>
        /\ \E i \in DOMAIN turnConfig.apiKeys : chatSession.key = turnConfig.apiKeys[i]
        /\ chatSession.model \in {actualModel(turnConfig.model), FALLBACK_MODEL}

\* the draft call of an attempt returned a response in this step
DraftReturned ==
    /\ pc = "draft"
    /\ pc' = "open" \/ (pc' = "fail" /\ err' = DraftReadError)

\* C18 as stated: with auto-refine an attempt whose draft call returned issues
\* the streaming refine call next, on the same session; an attempt issues a
\* draft call exactly when auto-refine is enabled, and nothing is yielded
\* before the refine stream is open.
C18_DraftThenRefine ==
    [][ /\ DraftReturned =>
              /\ pc' = "open"
              /\ genRequests' = genRequests + 1
              /\ chatSession' = chatSession
        /\ (pc = "loop" /\ pc' \in {"draft", "open"}) =>
              /\ genRequests' = genRequests + 1
              /\ pc' = IF isAutoRefine THEN "draft" ELSE "open"
        /\ pc' \in {"draft", "open"} => chunks' = 0 ]_vars

----------------------------------------------------------------------------
(* Retrieval *)

RECURSIVE SumLen(_)
SumLen(q) == IF q = <<>> THEN 0 ELSE Head(q).len + SumLen(Tail(q))

\* every file is inactive or has no chunks
NoEligibleFile(files) ==
    \A i \in DOMAIN files : files[i].isActive = "false" \/ Len(files[i].chunks) = 0

\* the chunks of the files that are not inactive
EligibleChunks(files) ==
    AllChunks(SelectSeq(files, LAMBDA f : f.isActive # "false"))

\* C19: the fragment a retrieval returned holds no chunk with a similarity of
\* 0.4 or less, at most 20 chunks, and at most 150,000 characters of chunk
\* text in total.
C19_FragmentWithinLimits ==
    context.returned =>
        /\ \A i \in DOMAIN context.chunks : context.chunks[i].score > 400
        /\ Len(context.chunks) <= 20
        /\ SumLen(context.chunks) <= 150000

\* 20 chunks were taken out of more than 20 good ones, after the best-scoring
\* chunk had been left out for its size
C19_Witness ==
    /\ context.returned
    /\ Len(context.chunks) = 20
    /\ Cardinality({i \in DOMAIN EligibleChunks(knowledgeFiles) :
                       EligibleChunks(knowledgeFiles)[i].score > 400}) > 20
    /\ \E i \in DOMAIN EligibleChunks(knowledgeFiles) :
          /\ EligibleChunks(knowledgeFiles)[i].len >= 150000
          /\ \A j \in DOMAIN context.chunks :
                EligibleChunks(knowledgeFiles)[i].score > context.chunks[j].score

\* C20: a retrieval called with files that are all inactive or without chunks
\* returns the empty fragment in the call itself and sends no embedding request.
C20_NoEligibleFileNoRequest ==
    [][ (ragPc = "idle" /\ ragPc' # "idle" /\ NoEligibleFile(knowledgeFiles')) =>
           /\ ragPc' = "returned"
           /\ context' = EmptyContext
           /\ embedRequests' = 0 ]_vars

\* an inactive file with chunks and an active file without, a key being set
C20_Witness ==
    /\ ragPc = "returned"
    /\ Len(apiKeys) > 0
    /\ Len(knowledgeFiles) = 2
    /\ knowledgeFiles[1].isActive = "false" /\ Len(knowledgeFiles[1].chunks) > 0
    /\ knowledgeFiles[2].isActive = "true" /\ Len(knowledgeFiles[2].chunks) = 0
    /\ context = EmptyContext
    /\ embedRequests = 0

\* the file of the call that carries the name
FileNamed(files, name) == files[CHOOSE i \in DOMAIN files : files[i].name = name]

\* the place of the named file in the list of the call
FileRank(files, name) == CHOOSE i \in DOMAIN files : files[i].name = name

\* the same chunk of the same file
SameChunk(a, b) == a.source = b.source /\ a.pos = b.pos

\* a comes before b where the chunks are taken by descending score and
\* chunks of equal score in the order of the input (file, then place in file)
ConsideredBefore(files, a, b) ==
    \/ a.score > b.score
    \/ /\ a.score = b.score
       /\ \/ FileRank(files, a.source) < FileRank(files, b.source)
          \/ a.source = b.source /\ a.pos < b.pos

\* C21: the fragment of a retrieval holds no chunk of a file whose isActive is
\* false, whatever the other files and the scores are; a file without the flag
\* counts as active: its chunk is returned when it is the best-scoring chunk
\* of the files not flagged false, scores above 0.4 and fits the budget.
C21_InactiveNeverReturned ==
    context.returned =>
        /\ \A i \in DOMAIN context.chunks :
              /\ \E j \in DOMAIN knowledgeFiles :
                    knowledgeFiles[j].name = context.chunks[i].source
              /\ FileNamed(knowledgeFiles, context.chunks[i].source).isActive # "false"
        /\ \A i \in DOMAIN context.fragment :
              /\ \E j \in DOMAIN knowledgeFiles :
                    knowledgeFiles[j].name = context.fragment[i].source
              /\ FileNamed(knowledgeFiles, context.fragment[i].source).isActive # "false"
        /\ queryVector = "vector" =>
              \A k \in DOMAIN EligibleChunks(knowledgeFiles) :
                 \E c \in {EligibleChunks(knowledgeFiles)[k]} :
                    ( /\ FileNamed(knowledgeFiles, c.source).isActive = "undefined"
                      /\ c.score > 400
                      /\ c.len < 150000
                      /\ \A m \in DOMAIN EligibleChunks(knowledgeFiles) :
                            ~ConsideredBefore(knowledgeFiles,
                                              EligibleChunks(knowledgeFiles)[m], c) )
                    => \E i \in DOMAIN context.chunks : SameChunk(context.chunks[i], c)

\* an inactive file with good chunks comes first, a file without the flag
\* second: the fragment holds a chunk of the second file only
C21_Witness ==
    /\ context.returned
    /\ queryVector = "vector"
    /\ Len(knowledgeFiles) = 2
    /\ knowledgeFiles[1].isActive = "false"
    /\ \E k \in DOMAIN knowledgeFiles[1].chunks : knowledgeFiles[1].chunks[k].score > 400
    /\ knowledgeFiles[2].isActive = "undefined"
    /\ Len(context.fragment) > 0
    /\ \A i \in DOMAIN context.fragment : context.fragment[i].source = DocName(2)

\* C22: with the query vector at hand, the chunks of the fragment stand in the
\* order of descending score (equal scores in input order) and are rendered in
\* that order with their file name and two-decimal score; a chunk is in the
\* fragment exactly if it is a chunk of a file not flagged false, scores above
\* 0.4, stays below 150,000 characters together with the chunks taken before
\* it, and fewer than 20 chunks were taken before it.
C22_GreedyInScoreOrder ==
    (context.returned /\ queryVector = "vector") =>
        \E sel \in {context.chunks} : \E all \in {EligibleChunks(knowledgeFiles)} :
        /\ \A i, j \in DOMAIN sel :
              i < j => /\ ConsideredBefore(knowledgeFiles, sel[i], sel[j])
                       /\ sel[i].score >= sel[j].score
        /\ Len(context.fragment) = Len(sel)
        /\ \A i \in DOMAIN sel :
              /\ context.fragment[i].source = sel[i].source
              /\ context.fragment[i].pos = sel[i].pos
              /\ context.fragment[i].relevance = toFixed2(sel[i].score)
        /\ \A i \in DOMAIN sel : \E k \in DOMAIN all : all[k] = sel[i]
        /\ \A k \in DOMAIN all :
              \E n \in {Cardinality({i \in DOMAIN sel :
                                       ConsideredBefore(knowledgeFiles, sel[i], all[k])})} :
                 (\E i \in DOMAIN sel : SameChunk(sel[i], all[k]))
                 <=> /\ all[k].score > 400
                     /\ SumLen(SubSeq(sel, 1, n)) + all[k].len < 150000
                     /\ n < 20

\* two files with more than 20 chunks each, all of one score: the first 20
\* chunks of the first file were taken in their order, the rest was left out
C22_Witness ==
    /\ context.returned
    /\ queryVector = "vector"
    /\ Len(knowledgeFiles) = 2
    /\ Len(knowledgeFiles[1].chunks) > 20
    /\ Len(knowledgeFiles[2].chunks) > 20
    /\ knowledgeFiles[1].isActive = "undefined"
    /\ Len(context.fragment) = 20
    /\ \A i \in 1..20 :
          /\ context.fragment[i].source = DocName(1)
          /\ context.fragment[i].pos = i
          /\ context.fragment[i].relevance = "0.90"

----------------------------------------------------------------------------
(* Chunking and vectorising *)

RECURSIVE ConcatStrings(_)
ConcatStrings(q) == IF q = <<>> THEN "" ELSE Head(q) \o ConcatStrings(Tail(q))

\* C25: for a text and a positive size, the chunks of chunkText put together
\* in order are the text; there are ceil(length / size) of them (none for the
\* empty text); every chunk but the last has exactly size characters and the
\* last has between 1 and size.
C25_ChunksRebuildText ==
    chunked.size > 0 =>
        \E n \in {Len(chunked.chunks)} :
        /\ ConcatStrings(chunked.chunks) = chunked.text
        /\ n = (Len(chunked.text) + chunked.size - 1) \div chunked.size
        /\ \A i \in 1..(n - 1) : Len(chunked.chunks[i]) = chunked.size
        /\ n > 0 => Len(chunked.chunks[n]) \in 1..chunked.size

\* a direct call whose text is not a multiple of the size
C25_Witness ==
    /\ vecPc = "idle"
    /\ chunked = [text |-> "abba", size |-> 3, chunks |-> <<"abb", "a">>]

\* the k-th piece (0-based) of 1000 characters of a text
Piece(text, k) == SubSeq(text, 1000 * k + 1, Min(1000 * (k + 1), Len(text)))

\* the positions of the pieces of a text
Pieces(text) == 0..(((Len(text) + 999) \div 1000) - 1)

\* the pieces whose trimmed length is at least 50
LongPieces(text) == {k \in Pieces(text) : Len(trim(Piece(text, k))) >= 50}

\* the i-th smallest member of a set of numbers
Nth(S, i) == CHOOSE p \in S : Cardinality({q \in S : q < p}) = i - 1

\* C26: vectorizeFile hands to embedText only pieces of the text whose
\* trimmed length is at least 50, each one once, in source order and one at a
\* time; the file it returns is active and its chunks are exactly the pieces
\* whose embedding gave a vector, in source order, each with its vector (no
\* chunks at all is allowed).
C26_VectorizedChunks ==
    /\ vecPending \in {0, 1}
    /\ vecPending = 1 <=> vecPc = "embedding"
    /\ \A i \in DOMAIN vecSent : vecSent[i] \in LongPieces(vecArgs.content)
    /\ \A i, j \in DOMAIN vecSent : i < j => vecSent[i] < vecSent[j]
    /\ vecOk \subseteq {vecSent[i] : i \in DOMAIN vecSent}
    /\ vecPc = "returned" =>
          /\ {vecSent[i] : i \in DOMAIN vecSent} = LongPieces(vecArgs.content)
          /\ vecFile.isActive = "true"
          /\ vecFile.content = vecArgs.content
          /\ Len(vecFile.chunks) = Cardinality(vecOk)
          /\ \A i \in DOMAIN vecFile.chunks :
                /\ vecFile.chunks[i].text = Piece(vecArgs.content, Nth(vecOk, i))
                /\ vecFile.chunks[i].vector

\* a text of three pieces: the first was embedded without a result, the
\* second is white space and was passed over, the third was embedded
C26_Witness ==
    /\ vecPc = "returned"
    /\ Cardinality(Pieces(vecArgs.content)) = 3
    /\ vecSent = <<0, 2>>
    /\ vecOk = {2}
    /\ Len(vecFile.chunks) = 1
    /\ vecFile.chunks[1].text = Repeat("b", 60)

----------------------------------------------------------------------------
(* Composition of the prompt *)

\* a turn whose guards passed: its history and sections are those of args
Composing == pc \in {"retrieve", "loop", "stream", "done"}

\* the positions of the previous turns that are not error turns and have text
Qualifying(h) == {i \in DOMAIN h : h[i].isError # "true" /\ h[i].text # ""}

\* C29: the history handed to the session of every attempt holds the last 20
\* previous turns that are not flagged as errors and have text (all of them
\* when fewer qualify), in their order; no error turn and no turn without
\* text is in it.
C29_HistoryIsLastTwentyQualifying ==
    Composing =>
        LET h == args.previousHistory
            q == Cardinality(Qualifying(h))
            n == Min(20, q)
        IN  /\ Len(sdkHistory) = n
            /\ \A k \in 1..n :
                  LET m == h[Nth(Qualifying(h), q - n + k)]
                  IN  /\ sdkHistory[k].text = m.text
                      /\ sdkHistory[k].role = "user" <=> m.role = "user"

\* the request of a turn with more than 20 qualifying previous turns, an
\* error turn among the last ones, has left
C29_Witness ==
    /\ pc = "stream"
    /\ Len(args.previousHistory) = LongHistory
    /\ Cardinality(Qualifying(args.previousHistory)) > 20
    /\ args.previousHistory[LongHistory - 1].isError = "true"
    /\ Len(sdkHistory) = 20
    /\ sdkHistory[20].text = args.previousHistory[LongHistory].text
    /\ sdkHistory[19].text = args.previousHistory[LongHistory - 2].text

\* the opening of the retrieved-knowledge section
KnowledgeMarker == "<active_story_context>"

\* the composed prompt, its parts and the message of the request are without
\* a retrieved-knowledge section
NoKnowledgeSection(parts, prompt, input) ==
    /\ ~Includes(prompt, KnowledgeMarker)
    /\ \A i \in DOMAIN parts : ~Includes(parts[i], KnowledgeMarker)
    /\ \A i \in DOMAIN input.text : ~Includes(input.text[i], KnowledgeMarker)

\* C23: when the embedding of the query gives no vector (embedText caught an
\* error or the response held none), the retrieval returns the empty text
\* and throws nothing; the turn that awaited it then enters the attempt loop
\* with an attempt to make and a prompt without a retrieved-knowledge
\* section, and the request of that attempt leaves with this prompt.
C23_EmbeddingFailureDegrades ==
    [][/\ (ragPc = "embedding" /\ ragPc' = "returned" /\ queryVector' = "null") =>
            /\ context' = EmptyContext
            /\ joinFragment(context'.fragment) = ""
            /\ pc' = pc
            /\ thrown' = NoError
       /\ (pc = "retrieve" /\ ragPc = "returned" /\ queryVector = "null"
             /\ pc' # "retrieve") =>
            /\ pc' = "loop"
            /\ thrown' = NoError
            /\ attempt' < maxAttempts'
            /\ NoKnowledgeSection(contextParts', finalPrompt', messageInput')
       /\ (pc = "loop" /\ pc' = "stream") =>
            /\ UNCHANGED <<finalPrompt, messageInput, contextParts>>
            /\ thrown' = NoError]_vars

\* a turn with memories and an active knowledge file whose query embedding
\* failed has sent its request
C23_Witness ==
    /\ pc = "stream"
    /\ genAttempts = 1
    /\ Len(callConfig.knowledgeFiles) > 0
    /\ embedRequests = 1
    /\ queryVector = "null"
    /\ context = EmptyContext
    /\ Len(contextParts) > 0
    /\ NoKnowledgeSection(contextParts, finalPrompt, messageInput)
    /\ Includes(finalPrompt, "<memory_bank>")

\* the composition of a turn has ended
Composed == pc \in {"loop", "stream", "done"}

\* the text the retrieval of the turn returned; none without knowledge files
RetrievalResult ==
    IF Len(callConfig.knowledgeFiles) > 0 THEN joinFragment(context.fragment) ELSE ""

\* the sections whose source is present, in the fixed order
PresentSections(a, cfg, retrieved) ==
    (IF a.storySummary # "" THEN <<summarySection(a.storySummary)>> ELSE <<>>)
    \o (IF Len(cfg.memories) >= 1
        THEN <<memorySection(formatMemories(cfg.memories))>> ELSE <<>>)
    \o (IF Len(cfg.characterProfiles) >= 1
        THEN <<characterSection(formatCharacterProfiles(cfg.characterProfiles))>>
        ELSE <<>>)
    \o (IF retrieved # "" THEN <<knowledgeSection(retrieved)>> ELSE <<>>)
    \o (IF cfg.targetWordCount > 500
        THEN <<constraintPrompt(cfg.targetWordCount)>> ELSE <<>>)

\* C27: the composed prompt of a turn holds exactly the sections whose source
\* is present in the turn's arguments, its configuration and its retrieval
\* result, in the order summary, memory, character notes, retrieved
\* knowledge, length mandate, and then the raw user input; without any
\* section it is the raw user input.
C27_ExactlyPresentSections ==
    Composed =>
        \E e \in {PresentSections(args, callConfig, RetrievalResult)} :
           /\ contextParts = e
           /\ finalPrompt = IF e = <<>> THEN args.text
                            ELSE Join(e, "\n") \o "\n\nUSER INPUT: " \o args.text

\* ceil(length / 4) of a text
CeilQuarter(t) == (Len(t) + 3) \div 4

\* the estimate of a section's content when the section is in the prompt
SectionTokens(section, content) ==
    IF \E i \in DOMAIN contextParts : contextParts[i] = section
    THEN CeilQuarter(content) ELSE 0

\* the sections a composed prompt can hold, each with the content counted
SectionsOfTurn ==
    LET memoryText == formatMemories(callConfig.memories)
        charText == formatCharacterProfiles(callConfig.characterProfiles)
        mandate == constraintPrompt(endConfig.targetWordCount)
    IN  { <<summarySection(args.storySummary), args.storySummary>>,
          <<memorySection(memoryText), memoryText>>,
          <<characterSection(charText), charText>>,
          <<knowledgeSection(RetrievalResult), RetrievalResult>>,
          <<mandate, mandate>> }

\* the response of the embedding service to the turn's query
EmbeddingResponse ==
    IF Len(callConfig.knowledgeFiles) > 0 THEN queryVector ELSE "none"

\* the composition at hand had the inputs of the first one: arguments,
\* configuration when called and when resumed, embedding response
SameInputsAsFirstRun ==
    /\ runs = ComparedRuns
    /\ args = firstRun.args
    /\ callConfig = firstRun.callConfig
    /\ endConfig = firstRun.endConfig
    /\ EmbeddingResponse = firstRun.queryVector

\* C28: a composition with the arguments, the configuration and the
\* embedding response of an earlier one gives the same prompt and the same
\* input-token estimate; the estimate is ceil(length / 4) of the user input
\* plus ceil(length / 4) of the content of every section in the prompt plus
\* 258 for every attachment; prompt and estimate stay as they are through
\* the attempts of the turn.
C28_CompositionDeterministic ==
    /\ [](Composed /\ SameInputsAsFirstRun =>
            /\ finalPrompt = firstRun.finalPrompt
            /\ inputTokens = firstRun.inputTokens)
    /\ [](Composed =>
            /\ \A i \in DOMAIN contextParts :
                  \E sc \in SectionsOfTurn : contextParts[i] = sc[1]
            /\ inputTokens = CeilQuarter(args.text) + 258 * args.files
                      + SectionTokens(summarySection(args.storySummary), args.storySummary)
                      + SectionTokens(memorySection(formatMemories(callConfig.memories)),
                                      formatMemories(callConfig.memories))
                      + SectionTokens(
                          characterSection(formatCharacterProfiles(callConfig.characterProfiles)),
                          formatCharacterProfiles(callConfig.characterProfiles))
                      + SectionTokens(knowledgeSection(RetrievalResult), RetrievalResult)
                      + SectionTokens(constraintPrompt(endConfig.targetWordCount),
                                      constraintPrompt(endConfig.targetWordCount)))
    /\ [][(pc \in {"loop", "stream"} /\ pc' \in {"loop", "stream", "done", "fail"}) =>
            UNCHANGED <<finalPrompt, inputTokens, messageInput>>]_vars

\* the second attempt of a turn with all five sections and two attachments,
\* composed from the inputs of the first composition
C28_Witness ==
    /\ pc = "stream"
    /\ genAttempts = 2
    /\ SameInputsAsFirstRun
    /\ args.files = 2
    /\ Len(contextParts) = 5
    /\ finalPrompt = firstRun.finalPrompt
    /\ inputTokens = firstRun.inputTokens
    /\ inputTokens > 516

----------------------------------------------------------------------------
(* The application *)

\* the handleSendMessage call in flight caught an error in this step
TurnFails == appPc = "streaming" /\ outcome' = "failed"

\* C30: when the turn of a handleSendMessage call fails, the conversation
\* holds the user's message of that turn with its text and, right after it,
\* the turn's model message with the error text and the error flag; the
\* loading flag is cleared.
C30_FailureShownOnTurn ==
    [][TurnFails =>
          /\ isLoading' = FALSE
          /\ \E i \in DOMAIN messages' :
                /\ i > 1
                /\ messages'[i].id = appTurn.modelId
                /\ messages'[i].role = "model"
                /\ messages'[i].isError = "true"
                /\ messages'[i].text = "Lỗi hệ thống: " \o failure'
                /\ messages'[i - 1].id = appTurn.userId
                /\ messages'[i - 1].role = "user"
                /\ messages'[i - 1].text = appTurn.text]_vars

\* C31: the application has at most one sendMessageStream call open, and
\* has one exactly while isLoading is set; while a turn is loading no
\* handler (send, retry, edit and resubmit, quick action) opens another
\* call or starts another turn; when the stream of the turn ends or throws,
\* isLoading is cleared.
C31_OneTurnAtATime ==
    /\ [](openStreams <= 1 /\ (isLoading <=> openStreams = 1))
    /\ [][/\ isLoading => (openStreams' <= openStreams /\ appTurn' = appTurn)
          /\ openStreams' < openStreams => ~isLoading']_vars

\* while the first turn was loading, an edit was submitted: the
\* conversation was cut and no second call was made
C31_Witness ==
    /\ isLoading
    /\ openStreams = 1
    /\ turnCount = 1
    /\ appTurn.userId = 1
    /\ messages = <<>>
    /\ currentSessionId = 1

\* C39: no two automatic extractions are started at the same value of the
\* turn counter (so at most one per block of MEMORY_UPDATE_INTERVAL user
\* turns, and none for the streamed updates of the turn that made the
\* counter a multiple of 4), and a step only appends to the memories.
C39_OncePerBlock ==
    /\ [](\A i, j \in DOMAIN extractLog : extractLog[i] = extractLog[j] => i = j)
    /\ [][/\ Len(appMemories') >= Len(appMemories)
          /\ SubSeq(appMemories', 1, Len(appMemories)) = appMemories]_vars

\* one of the cases in which no cosine is defined
DegenerateVectors(a, b) ==
    \/ a.missing
    \/ b.missing
    \/ Len(a.values) # Len(b.values)
    \/ Len(a.values) = 0
    \/ \A i \in DOMAIN a.values : a.values[i] = 0
    \/ \A i \in DOMAIN b.values : b.values[i] = 0

\* C32: cosineSimilarity returns the number 0, without a division, when a
\* vector is missing, when the lengths differ, when the vectors have no
\* entries and when a magnitude is zero; it never divides by zero; and
\* cosineSimilarity(a, b) equals cosineSimilarity(b, a).
C32_Degenerate ==
    /\ DegenerateVectors(cosArgs.a, cosArgs.b) => cosResult = Returned(0)
    /\ cosResult.divided => cosResult.divisorSq # 0
    /\ cosResult = cosineSimilarity(cosArgs.b, cosArgs.a)

\* two vectors of the same length, the second with all entries 0
C32_Witness ==
    /\ cosArgs.a = Vector(<<2, -1>>)
    /\ cosArgs.b = Vector(<<0, 0>>)
    /\ cosResult = Returned(0)

\* C33: the list of stop sequences never holds more than 5 entries and never
\* the same entry twice; an add with a sequence that is already in the list,
\* or to a list that holds 5 entries, leaves the list as it is; an add that
\* changes the list appends the trimmed text, and a remove only takes
\* entries away.
C33_StopSequencesBounded ==
    /\ [](/\ Len(stopSequences) <= MaxStopSequences
          /\ \A i, j \in DOMAIN stopSequences :
                stopSequences[i] = stopSequences[j] => i = j)
    /\ [][/\ (/\ stopOp'.op = "add"
              /\ \/ Len(stopSequences) >= MaxStopSequences
                 \/ includes(stopSequences, trim(stopOp'.arg)))
             => stopSequences' = stopSequences
          /\ Len(stopSequences') > Len(stopSequences)
             => /\ stopOp'.op = "add"
                /\ stopSequences' = Append(stopSequences, trim(stopOp'.arg))
          /\ Len(stopSequences') < Len(stopSequences)
             => /\ stopOp'.op = "remove"
                /\ \A i \in DOMAIN stopSequences' :
                      includes(stopSequences, stopSequences'[i])]_vars

\* the list is full, and the sequence typed last, with a space before
\* it, is one of its entries: Enter was pressed and nothing changed
C33_Witness ==
    /\ Len(stopSequences) = MaxStopSequences
    /\ stopOp = [op |-> "add", arg |-> " a", key |-> "Enter"]
    /\ includes(stopSequences, "a")
    /\ newStopSequence = " a"

\* the ids of the files of the batch that were vectorised, in upload order
RECURSIVE VectorizedFrom(_, _, _)
VectorizedFrom(outs, b, i) ==
    IF i > Len(outs) THEN <<>>
    ELSE (IF outs[i] = "ok" THEN <<fileId(b, i)>> ELSE <<>>) \o VectorizedFrom(outs, b, i + 1)

\* C34: isProcessing is set exactly while a batch is being processed; a
\* file is skipped only for being too large, for an extraction that failed
\* or gave no text, or for a vectorisation that threw; and when the handler
\* ends, every file of the batch has been processed or skipped, the files
\* that were vectorised are appended to the list in upload order, and
\* isProcessing is cleared.
C34_BatchUpload ==
    /\ [](/\ isProcessing <=> upPc \in {"extract", "vectorize"}
          /\ \A k \in DOMAIN upOutcomes : upOutcomes[k] = "too large" <=>
                (upFiles[k].large /\ upOutcomes[k] # "pending" /\ upOutcomes[k] # "no key"))
    /\ [][(upPc' = "done" /\ (upPc # "done" \/ uploads' # uploads))
          => /\ \A k \in DOMAIN upOutcomes' :
                   upOutcomes'[k] \in {"ok", "too large", "extraction failed", "no text",
                                       "vectorization failed"}
             /\ panelFiles' = panelFiles \o VectorizedFrom(upOutcomes', uploads', 1)
             /\ ~isProcessing']_vars

\* a second batch of two files has ended: the vectorisation of the first
\* threw, the second was vectorised and stands in the list after the file of
\* the first batch, whose other file was too large
C34_Witness ==
    /\ upPc = "done"
    /\ uploads = 2
    /\ upOutcomes = <<"vectorization failed", "ok">>
    /\ panelFiles = <<fileId(1, 2), fileId(2, 2)>>
    /\ ~isProcessing

\* a synthesis that gave audio, or the cache
SpeechSucceeded(entry) == entry.outcome \in {"buffer", "cached"}

\* C35: a generateSpeech call made after a call for the same text and voice
\* returned audio is served from the cache, without a backend request, and
\* returns the same bytes; a synthesis that failed or gave no audio stores
\* nothing; and an entry of the cache is never removed and its bytes never
\* change.
C35_CacheAdditive ==
    /\ [](\A i, j \in DOMAIN speechLog :
             (/\ i <= speechLog[j].after
              /\ speechLog[i].text = speechLog[j].text
              /\ speechLog[i].voice = speechLog[j].voice
              /\ SpeechSucceeded(speechLog[i]))
             => /\ speechLog[j].outcome = "cached"
                /\ speechLog[j].bytes = speechLog[i].bytes)
    /\ [][/\ (/\ Len(speechLog') > Len(speechLog)
              /\ speechLog'[Len(speechLog')].outcome \in {"null", "no key"})
             => ttsCache' = ttsCache
          /\ \A k \in DOMAIN ttsCache :
                /\ k \in DOMAIN ttsCache'
                /\ bytesOf(audioHeap', ttsCache'[k]) = bytesOf(audioHeap, ttsCache[k])]_vars

\* startChat was called last with an empty key list, and there is no
\* environment key
NoCredentials == currentConfig # NoConfig /\ apiKeys = <<>> /\ envKey = ""

\* C36: while the service has no credentials, no step issues a backend
\* request: no generation request, no query embedding (embedText gets no
\* client and returns null), no speech synthesis (generateSpeech, unless it
\* answers from its cache, fails with the missing-key error).
C36_NoRequestWithoutCredentials ==
    [][NoCredentials =>
          /\ genRequests' <= genRequests
          /\ (ragPc # "embedding" /\ ragPc' = "embedding")
             => (embedKey' = NoClient /\ embedRequests' = 0)
          /\ Len(speechPending') <= Len(speechPending)
          /\ (/\ Len(speechLog') > Len(speechLog)
              /\ speechPending' = speechPending
              /\ speechLog'[Len(speechLog')].outcome # "cached")
             => speechLog'[Len(speechLog')].outcome = "no key"]_vars

\* C37: when the generator has returned, the text deltas it yielded in the
\* turn, concatenated, are the visible text of the stream that completed,
\* and the output estimate of the usage record is the estimate for that text
\* and the thought text yielded with it.
C37_DeliveredOnce ==
    (pc = "done" /\ usage)
    => /\ deliveredText = fullOutputText
       /\ update.usageMetadata.outputTokens
             = estimateTokens(deliveredText \o fullThoughtText)

\* the catch block took the fallback branch in this step
FallbackStep ==
    /\ Len(recov') = Len(recov) + 1
    /\ recov'[Len(recov')].ev = "fallback"

====
